---- MODULE Spec2Model ----
(***************************************************************************)
(* Model of the MCP tool manager of vimcoplit (package internal/core/mcp): *)
(* the Manager registry and dispatcher, the Local and HTTP executors, the  *)
(* parameter validation of Tool, and the Local and Remote server runners.  *)
(*                                                                         *)
(* Go maps are functions whose DOMAIN is the set of keys present.  Go      *)
(* values of type interface{} are represented by the name of their dynamic *)
(* type.  Go errors are records [type, msg]; the nil error is Nil.         *)
(***************************************************************************)
EXTENDS Integers, Sequences, FiniteSets, TLC

VARIABLES
    servers,      \* Manager.servers   : server ID -> [Type, Status]
    tools,        \* Manager.tools     : tool ID -> [ServerID, Parameters]
    executors,    \* Manager.executors : server ID -> executor
    autoApprove,  \* Manager.autoApprove
    timeout,      \* Manager.timeout (seconds)
    persisted,    \* contents of the file at Manager.configPath
    failBudget,   \* number of os.WriteFile calls the file system will still fail
    last,         \* the last Manager call: its arguments and what it returned
    scn,          \* how far the calls so far follow the scenario add, start, register, execute
    runnerCfg,    \* the runners' servers: Metadata["start_cmd"], Metadata["health_url"]
    lstatus,      \* LocalServerRunner.status
    stopChan,     \* LocalServerRunner.stopChan: "open" or "closed"
    loops,        \* the healthCheck goroutines of the Local runner, counted by where they are
    procs,        \* the processes the Local runner started and did not kill
    crashed,      \* a panic ended the program
    killBudget,   \* number of Process.Kill calls the system will still fail
    llast,        \* the last step of the Local runner
    rstatus,      \* RemoteServerRunner.status
    rlast,        \* the last call of the Remote runner
    rprobe,       \* the health probe the last Start of the Remote runner made
    mu,           \* Manager.mu: the thread holding the write lock, "" when it is free
    th,           \* for each thread calling the Manager: where it is in its call, and its locals
    allOK,        \* every Manager call that returned so far returned nil
    globalConfig, \* package config: the pointer held by the variable config (0: nil)
    once,         \* package config: whether once.Do has run
    heap,         \* the *Config values allocated so far, by address
    held,         \* the addresses callers hold (returned to them, or made by DefaultConfig)
    got,          \* the addresses GetConfig has returned
    cfgFile,      \* contents of the application's config file
    savedCfg,     \* the Config value SaveConfig wrote the file from
    envPort,      \* the environment variable VIMCOPLIT_PORT ("" when unset)
    alast,        \* the last call of package config: what it was given and returned
    removed,      \* the handlers that were registered for the tools of servers since removed
    rmu,          \* the holder of each runner's mu ("" when it is free)
    component     \* what the program calls: "Manager", the "local" or the "remote" runner

mgrVars == <<servers, tools, executors, autoApprove, timeout, persisted, failBudget, last, scn>>

runnerVars == <<runnerCfg, lstatus, stopChan, loops, procs, crashed, killBudget, llast, rstatus, rlast, rprobe>>

concVars == <<mu, th, allOK>>

appVars == <<globalConfig, once, heap, held, got, cfgFile, savedCfg, envPort, alast>>

histVars == <<removed>>

lockVars == <<rmu, component>>

vars == <<mgrVars, runnerVars, concVars, appVars, histVars, lockVars>>

-----------------------------------------------------------------------------
(* Bounds of the model *)

\* the system fails at most this many Process.Kill calls in one behaviour
MaxKillFailures == 1

\* at most this many healthCheck goroutines, and processes, of one Local runner
MaxLoops == 2

\* how many writes of the registry file may fail
MaxWriteFailures == 2

\* NewManager: timeout: 30 * time.Second
DefaultTimeout == 30

\* the other value callers pass to SetTimeout
OtherTimeout == 60

-----------------------------------------------------------------------------
(* Go maps *)

EmptyMap == [x \in {} |-> ""]

MapPut(m, k, v) == [x \in (DOMAIN m) \cup {k} |-> IF x = k THEN v ELSE m[x]]

MapDelete(m, k) == [x \in (DOMAIN m) \ {k} |-> m[x]]

-----------------------------------------------------------------------------
(* Errors *)

Nil == [type |-> "nil", msg |-> ""]

ErrorsNew(text) == [type |-> "*errors.errorString", msg |-> text]

\* context.DeadlineExceeded and context.Canceled: the two sentinel values
DeadlineExceeded == [type |-> "context.deadlineExceededError", msg |-> "context deadline exceeded"]

Canceled == [type |-> "*errors.errorString", msg |-> "context canceled"]

\* a run-time panic: the call does not return
Panic(text) == [type |-> "panic", msg |-> text]

\* fmt.Errorf(prefix + "%v", err): a new error value carrying err's text
Errorf(prefix, err) == [type |-> "*fmt.wrapError", msg |-> prefix \o err.msg]

\* what http.Client.Do returns on failure: always a *url.Error around the cause
URLError(cause) == [type |-> "*url.Error", msg |-> "Post: " \o cause.msg]

-----------------------------------------------------------------------------
(* Entities (src/unnamed/part_002) *)

ServerTypeLocal == "local"
ServerTypeRemote == "remote"

ServerStatusRunning == "running"
ServerStatusStopped == "stopped"
ServerStatusError == "error"

ToolExecutionStatusSuccess == "success"
ToolExecutionStatusError == "error"
ToolExecutionStatusTimeout == "timeout"

\* dynamic types of the values a caller may place in a parameter map
GoTypes == {"string", "float64", "int", "bool", "[]interface{}", "map[string]interface{}", "uint", "nil"}

\* validateParameterType(paramType, value): Nil when value's dynamic type fits the tag
validateParameterType(paramType, value) ==
    CASE paramType = "string"  -> IF value = "string" THEN Nil
                                  ELSE ErrorsNew("expected string, got " \o value)
      [] paramType = "number"  -> IF value \in {"int", "int8", "int16", "int32", "int64", "float32", "float64"}
                                  THEN Nil
                                  ELSE ErrorsNew("expected number, got " \o value)
      [] paramType = "boolean" -> IF value = "bool" THEN Nil
                                  ELSE ErrorsNew("expected boolean, got " \o value)
      [] paramType = "array"   -> IF value = "[]interface{}" THEN Nil
                                  ELSE ErrorsNew("expected array, got " \o value)
      [] paramType = "object"  -> IF value = "map[string]interface{}" THEN Nil
                                  ELSE ErrorsNew("expected object, got " \o value)
      [] OTHER                 -> ErrorsNew("unsupported parameter type: " \o paramType)

\* the first declared parameter named name, as an index into Parameters (0: none)
FindParam(Parameters, name) ==
    IF \E i \in 1..Len(Parameters) : Parameters[i].Name = name
    THEN CHOOSE i \in 1..Len(Parameters) :
            /\ Parameters[i].Name = name
            /\ \A j \in 1..(i - 1) : Parameters[j].Name # name
    ELSE 0

MissingRequired_Ignored(Parameters, params) == {}

\* first loop of ValidateParameters: the first required parameter missing from params
MissingRequired(Parameters, params) ==
    {i \in 1..Len(Parameters) : Parameters[i].Required /\ Parameters[i].Name \notin DOMAIN params}

CheckSupplied_UnknownAccepted(Parameters, params, name) ==
    LET i == FindParam(Parameters, name) IN
    IF i = 0 THEN Nil
    ELSE LET e == validateParameterType(Parameters[i].Type, params[name]) IN
         IF e = Nil THEN Nil
         ELSE Errorf("invalid type for parameter " \o name \o ": ", e)

\* The error ValidateParameters reports for one supplied key
CheckSupplied(Parameters, params, name) ==
    LET i == FindParam(Parameters, name) IN
    IF i = 0 THEN ErrorsNew("unknown parameter: " \o name)
    ELSE LET e == validateParameterType(Parameters[i].Type, params[name]) IN
         IF e = Nil THEN Nil
         ELSE Errorf("invalid type for parameter " \o name \o ": ", e)

\* Tool.ValidateParameters: the set of errors the call may return.  The second
\* loop ranges over a Go map, whose iteration order is unspecified: when several
\* supplied keys are invalid, any of their errors may be the one returned.
ValidateParametersErrors(Parameters, params) ==
    LET missing == MissingRequired(Parameters, params) IN
    IF missing # {}
    THEN {ErrorsNew("missing required parameter: " \o
            Parameters[CHOOSE i \in missing : \A j \in missing : i <= j].Name)}
    ELSE LET bad == {CheckSupplied(Parameters, params, n) : n \in DOMAIN params} \ {Nil} IN
         IF bad = {} THEN {Nil} ELSE bad

\* Tool.ValidateParameters as a predicate: the call returns nil
ValidateParameters(Parameters, params) == ValidateParametersErrors(Parameters, params) = {Nil}

-----------------------------------------------------------------------------
(* Executors (src/internal/core/mcp/server.go, lines 232-386) *)

\* a ToolHandler's return value for params: an opaque value determined by the
\* handler and by the parameter map it was called with
HandlerValue(h, params) == [from |-> h, params |-> params]

\* the body of a decoded HTTP response, as a payload
BodyValue(body) == [from |-> body, params |-> EmptyMap]

NoPayload == [from |-> "", params |-> EmptyMap]

\* a nil *ToolExecutionResult
NilExecResult == [Status |-> "nil", Result |-> NoPayload, Error |-> ""]

\* which backend an Execute call reached: nothing, a handler, or client.Do
NotInvoked == [kind |-> "none", target |-> "", params |-> EmptyMap]

NoEnv == [ctx |-> "", err |-> Nil, code |-> 0, body |-> ""]

NewLocalExecutor == [kind |-> "local", timeout |-> 0, handlers |-> EmptyMap]

NewHTTPExecutor(t) == [kind |-> "http", timeout |-> t, handlers |-> EmptyMap]

\* LocalExecutor.RegisterHandler
RegisterHandler(e, toolID, handler) == [e EXCEPT !.handlers = MapPut(e.handlers, toolID, handler)]

\* What a handler does with the context it is given.  ctx is the state of the
\* caller's context when the handler returns; err is the error it returns: none,
\* one of its own, ctx.Err() as it is or wrapped, or none although the context
\* is done (a handler that does not watch its context).
HandlerEnvs ==
    {[ctx |-> "live", err |-> e, code |-> 0, body |-> ""] :
        e \in {Nil, ErrorsNew("boom")}}
    \cup {[ctx |-> "deadline", err |-> e, code |-> 0, body |-> ""] :
        e \in {DeadlineExceeded, Errorf("query failed: ", DeadlineExceeded), Nil}}
    \cup {[ctx |-> "canceled", err |-> e, code |-> 0, body |-> ""] :
        e \in {Canceled, Nil}}

\* server.go 372-381: the test that classifies an error of the call as a timeout
IsDeadlineExceeded(err) == err = DeadlineExceeded

\* server.go 367-385: the result built from what the handler returned
LocalResult(h, params, env) ==
    IF env.err # Nil
    THEN IF IsDeadlineExceeded(env.err)
         THEN [Status |-> ToolExecutionStatusTimeout, Result |-> NoPayload, Error |-> "execution timed out"]
         ELSE [Status |-> ToolExecutionStatusError, Result |-> NoPayload, Error |-> env.err.msg]
    ELSE [Status |-> ToolExecutionStatusSuccess, Result |-> HandlerValue(h, params), Error |-> ""]

LookupHandler_ByServer(e, tool) ==
    IF tool.ServerID \in DOMAIN e.handlers THEN {e.handlers[tool.ServerID]} ELSE {}

\* server.go 357: the handler looked up for the tool
LookupHandler(e, tool) == IF tool.ID \in DOMAIN e.handlers THEN {e.handlers[tool.ID]} ELSE {}

\* LocalExecutor.Execute in one of the environments envs: the set of (error,
\* result) pairs the call may return, each with the backend it reached
LocalExecutorExecute(e, tool, params, envs) ==
    LET verrs == ValidateParametersErrors(tool.Parameters, params) IN
    IF verrs # {Nil}
    THEN {[err |-> Errorf("parameter validation failed: ", v), result |-> NilExecResult,
           invoked |-> NotInvoked, env |-> NoEnv] : v \in verrs}
    ELSE IF LookupHandler(e, tool) = {}
    THEN {[err |-> ErrorsNew("no handler registered for tool " \o tool.ID), result |-> NilExecResult,
           invoked |-> NotInvoked, env |-> NoEnv]}
    ELSE {[err |-> Nil, result |-> LocalResult(h, params, env),
           invoked |-> [kind |-> "handler", target |-> h, params |-> params], env |-> env] :
              h \in LookupHandler(e, tool), env \in envs \cap HandlerEnvs}

\* the status codes and bodies the remote end answers with
ResponseCodes == {200, 302, 404, 500}

\* "object": a JSON object without an error field; "object+error": one with it;
\* "array": a JSON value that is no object; "garbage": not JSON
ResponseBodies == {"object", "object+error", "array", "garbage"}

\* What client.Do returns: an error (always a *url.Error) or a response.
HTTPEnvs ==
    {[ctx |-> "live", err |-> URLError(ErrorsNew("connection refused")), code |-> 0, body |-> ""],
     [ctx |-> "live", err |-> URLError(ErrorsNew("Client.Timeout exceeded")), code |-> 0, body |-> ""],
     [ctx |-> "deadline", err |-> URLError(DeadlineExceeded), code |-> 0, body |-> ""],
     [ctx |-> "canceled", err |-> URLError(Canceled), code |-> 0, body |-> ""]}
    \cup {[ctx |-> "live", err |-> Nil, code |-> c, body |-> b] : c \in ResponseCodes, b \in ResponseBodies}

\* the environments of envs client.Do can meet for an endpoint: one without a
\* scheme never reaches the network, client.Do fails at once
HTTPEnvsFor(endpoint, envs) ==
    IF endpoint = ""
    THEN {[ctx |-> "live", err |-> URLError(ErrorsNew("unsupported protocol scheme")), code |-> 0, body |-> ""]}
    ELSE envs \cap HTTPEnvs

\* server.go 304-326: the result built from a response.  Line 315 asserts the
\* decoded body to be a JSON object without the two-value form: on any other
\* JSON value the assertion panics.
HTTPResponseResult(env) ==
    IF env.body = "garbage"
    THEN [Status |-> ToolExecutionStatusError, Result |-> NoPayload, Error |-> "failed to decode response"]
    ELSE IF env.code >= 400
    THEN IF env.body \notin {"object", "object+error"}
         THEN [Status |-> "panic", Result |-> NoPayload, Error |-> "interface conversion"]
         ELSE IF env.body = "object+error"
         THEN [Status |-> ToolExecutionStatusError, Result |-> NoPayload, Error |-> "error field of the body"]
         ELSE [Status |-> ToolExecutionStatusError, Result |-> NoPayload, Error |-> "server returned status"]
    ELSE [Status |-> ToolExecutionStatusSuccess, Result |-> BodyValue(env.body), Error |-> ""]

\* server.go 287-327: the result built from what client.Do returned
HTTPResult(env) ==
    IF env.err # Nil
    THEN IF IsDeadlineExceeded(env.err)
         THEN [Status |-> ToolExecutionStatusTimeout, Result |-> NoPayload, Error |-> "execution timed out"]
         ELSE [Status |-> ToolExecutionStatusError, Result |-> NoPayload, Error |-> "request failed: " \o env.err.msg]
    ELSE HTTPResponseResult(env)

\* HTTPExecutor.Execute.  json.Marshal succeeds on every value of GoTypes.
\* http.NewRequestWithContext fails on an endpoint that is no URL.
HTTPExecutorExecute(e, tool, params, envs) ==
    LET verrs == ValidateParametersErrors(tool.Parameters, params) IN
    IF verrs # {Nil}
    THEN {[err |-> Errorf("parameter validation failed: ", v), result |-> NilExecResult,
           invoked |-> NotInvoked, env |-> NoEnv] : v \in verrs}
    ELSE IF tool.Endpoint = "::bad"
    THEN {[err |-> ErrorsNew("failed to create request: parse error"), result |-> NilExecResult,
           invoked |-> NotInvoked, env |-> NoEnv]}
    ELSE {[err |-> IF HTTPResult(env).Status = "panic" THEN Panic(HTTPResult(env).Error) ELSE Nil,
           result |-> IF HTTPResult(env).Status = "panic" THEN NilExecResult ELSE HTTPResult(env),
           invoked |-> [kind |-> "http", target |-> tool.Endpoint, params |-> params], env |-> env] :
              env \in HTTPEnvsFor(tool.Endpoint, envs)}

\* ToolExecutor.Execute, dispatched on the executor's dynamic type
Execute(e, tool, params, envs) ==
    IF e.kind = "local" THEN LocalExecutorExecute(e, tool, params, envs)
    ELSE HTTPExecutorExecute(e, tool, params, envs)

-----------------------------------------------------------------------------
(* Inputs of the Manager's callers *)

ServerIDs == {"s1"}

\* the identifiers uuid.New() hands out
UUIDs == {"u1", "u2"}

AllServerIDs == ServerIDs \cup UUIDs

ToolIDs == {"t1", "t2"}

HandlerIDs == {"h1", "h2"}

TimeoutValues == {DefaultTimeout, OtherTimeout}

Param(name, type, required) == [Name |-> name, Type |-> type, Required |-> required]

\* the parameters each tool is declared with
DeclaredParameters(id) ==
    IF id = "t1"
    THEN <<Param("x", "string", TRUE), Param("n", "number", FALSE)>>
    ELSE <<Param("n", "array", TRUE), Param("x", "object", FALSE), Param("k", "integer", FALSE),
           Param("b", "boolean", FALSE)>>

\* the parameter maps callers pass to ExecuteTool: for t1 a valid one, one
\* without the required x, one with a float64 for the string x, one with the
\* unknown key u, and a valid one with the optional n; for t2 a valid one (the
\* others lack its required n)
ParamMaps ==
    { EmptyMap,
      [x |-> "string"],
      [x |-> "float64"],
      [x |-> "string", u |-> "string"],
      [x |-> "string", n |-> "float64"],
      [n |-> "[]interface{}"] }

\* the environments of an ExecuteTool call: every behaviour of a handler, every
\* failure of the transport, and three answers of the remote end
Envs ==
    HandlerEnvs
    \cup {e \in HTTPEnvs : e.err # Nil}
    \cup {e \in HTTPEnvs : e.err = Nil /\ <<e.code, e.body>> \in {<<200, "object">>, <<500, "object+error">>, <<404, "array">>}}

\* the *Server values callers pass to AddServer
ServerInputs ==
    [ID : ServerIDs,
     Type : {ServerTypeLocal, ServerTypeRemote, "stdio"},
     Status : {"", ServerStatusRunning},
     Tools : {<<>>}]

\* the (tool, handler) pairs callers pass to RegisterLocalTool
Registrations ==
    {[tool |-> "t1", handler |-> "h1"], [tool |-> "t1", handler |-> "h2"], [tool |-> "t2", handler |-> "h2"]}

\* the *Tool values callers pass to RegisterLocalTool
ToolInput(id) == [ID |-> id, ServerID |-> "", Parameters |-> DeclaredParameters(id), Endpoint |-> ""]

-----------------------------------------------------------------------------
(* Declarative config files (src/internal/core/mcp/config.go) *)

ToolConfig(id, name, endpoint) ==
    [ID |-> id, Name |-> name, Version |-> "1.0", Parameters |-> DeclaredParameters(id),
     Endpoint |-> endpoint, Timeout |-> 0, RetryCount |-> 0, RetryDelay |-> 0, Concurrency |-> 0,
     RateLimit |-> 0, LogMaxSize |-> 0, LogMaxFiles |-> 0]

ServerConfig(id, name, type, toolConfigs) ==
    [ID |-> id, Name |-> name, Version |-> "1.0", Type |-> type, Tools |-> toolConfigs,
     Port |-> 8080, SSLEnabled |-> FALSE, SSLCertFile |-> "", SSLKeyFile |-> "",
     ReadTimeout |-> 0, WriteTimeout |-> 0, IdleTimeout |-> 0, ShutdownTimeout |-> 0]

\* validateToolConfig: Nil, or the first violation
validateToolConfig(config) ==
    IF config.ID = "" THEN ErrorsNew("tool ID is required")
    ELSE IF config.Name = "" THEN ErrorsNew("tool name is required")
    ELSE IF config.Version = "" THEN ErrorsNew("tool version is required")
    ELSE IF \E i \in 1..Len(config.Parameters) : config.Parameters[i].Name = "" \/ config.Parameters[i].Type = ""
    THEN ErrorsNew("parameter name or type is required")
    ELSE IF config.Timeout < 0 THEN ErrorsNew("timeout must be non-negative")
    ELSE IF config.RetryCount < 0 THEN ErrorsNew("retry count must be non-negative")
    ELSE IF config.RetryDelay < 0 THEN ErrorsNew("retry delay must be non-negative")
    ELSE IF config.Concurrency < 0 THEN ErrorsNew("concurrency must be non-negative")
    ELSE IF config.RateLimit < 0 THEN ErrorsNew("rate limit must be non-negative")
    ELSE IF config.LogMaxSize < 0 THEN ErrorsNew("log max size must be non-negative")
    ELSE IF config.LogMaxFiles < 0 THEN ErrorsNew("log max files must be non-negative")
    ELSE Nil

\* validateServerConfig: Nil, or the first violation
validateServerConfig(config) ==
    IF config.ID = "" THEN ErrorsNew("server ID is required")
    ELSE IF config.Name = "" THEN ErrorsNew("server name is required")
    ELSE IF config.Version = "" THEN ErrorsNew("server version is required")
    ELSE IF config.Type = "" THEN ErrorsNew("server type is required")
    ELSE IF \E i \in 1..Len(config.Tools) : validateToolConfig(config.Tools[i]) # Nil
    THEN Errorf("invalid tool config: ",
                validateToolConfig(config.Tools[CHOOSE i \in 1..Len(config.Tools) :
                    /\ validateToolConfig(config.Tools[i]) # Nil
                    /\ \A j \in 1..(i - 1) : validateToolConfig(config.Tools[j]) = Nil]))
    ELSE IF config.Port < 0 \/ config.Port > 65535 THEN ErrorsNew("invalid port number")
    ELSE IF config.SSLEnabled /\ config.SSLCertFile = "" THEN ErrorsNew("SSL certificate file is required")
    ELSE IF config.SSLEnabled /\ config.SSLKeyFile = "" THEN ErrorsNew("SSL key file is required")
    ELSE IF config.ReadTimeout < 0 THEN ErrorsNew("read timeout must be non-negative")
    ELSE IF config.WriteTimeout < 0 THEN ErrorsNew("write timeout must be non-negative")
    ELSE IF config.IdleTimeout < 0 THEN ErrorsNew("idle timeout must be non-negative")
    ELSE IF config.ShutdownTimeout < 0 THEN ErrorsNew("shutdown timeout must be non-negative")
    ELSE Nil

\* LoadToolConfig / LoadServerConfig: the error of the load (the file parses)
LoadToolConfig(config) ==
    IF validateToolConfig(config) # Nil THEN Errorf("invalid tool config: ", validateToolConfig(config)) ELSE Nil

LoadServerConfig_Unvalidated(config) == Nil

LoadServerConfig(config) ==
    IF validateServerConfig(config) # Nil THEN Errorf("invalid server config: ", validateServerConfig(config)) ELSE Nil

\* the server files on disk
ServerConfigFiles ==
    { ServerConfig("s1", "remote one", ServerTypeRemote,
                   <<ToolConfig("t1", "tool one", "http://svc/t1"), ToolConfig("t2", "tool two", "::bad")>>),
      ServerConfig("s1", "local one", ServerTypeLocal, <<ToolConfig("t2", "tool two", "")>>),
      ServerConfig("s1", "", ServerTypeLocal, <<ToolConfig("t1", "tool one", "")>>),
      ServerConfig("s1", "remote one", ServerTypeRemote, <<ToolConfig("t1", "", "http://svc/t1")>>) }

\* the tool files on disk
ToolConfigFiles ==
    { ToolConfig("t1", "tool one", "http://svc/t1"),
      ToolConfig("", "nameless", "") }

-----------------------------------------------------------------------------
(* Server runners (src/internal/core/mcp/server.go, lines 1-230) *)

\* the record of a runner step: the operation, the status before it, the error
RunnerCall(op, pre, err) == [op |-> op, pre |-> pre, err |-> err]

NoLoops == [select |-> 0, checking |-> 0, failed |-> 0]

LiveLoops == loops.select + loops.checking + loops.failed

\* Server.URL of the Remote runner's server
RemoteURL == "http://remote"

\* the status codes a health endpoint answers with
HealthCodes == {200, 204, 404, 500}

\* what httpClient.Get(healthURL) may bring: no answer, or an answer with a code
ProbeAnswers ==
    {[reached |-> FALSE, code |-> 0]} \cup {[reached |-> TRUE, code |-> c] : c \in HealthCodes}

\* no probe was made
NoProbe == [url |-> "", answer |-> [reached |-> FALSE, code |-> 0]]

\* RemoteServerRunner.HealthCheck, lines 214-217: the URL probed
RemoteHealthURL ==
    IF runnerCfg.health_url # "" THEN runnerCfg.health_url ELSE RemoteURL \o "/health"

RemoteHealthCheck_Any2xx(answer) ==
    IF answer.reached /\ answer.code \in 200..299 THEN Nil
    ELSE ErrorsNew("health check failed")

\* RemoteServerRunner.HealthCheck, lines 219-229: the error returned
RemoteHealthCheck(answer) ==
    IF ~answer.reached THEN ErrorsNew("health check failed: connection refused")
    ELSE IF answer.code # 200 THEN ErrorsNew("health check failed with status")
    ELSE Nil

\* no caller and no loop holds a runner's mu
NoHolders ==
    /\ rmu = [local |-> "", remote |-> ""]
    /\ component = ""

\* NewLocalServerRunner and NewRemoteServerRunner
NewRunners ==
    /\ lstatus = ServerStatusStopped
    /\ stopChan = "open"
    /\ loops = NoLoops
    /\ procs = 0
    /\ crashed = FALSE
    /\ llast = RunnerCall("NewLocalServerRunner", ServerStatusStopped, Nil)
    /\ rstatus = ServerStatusStopped
    /\ rlast = RunnerCall("NewRemoteServerRunner", ServerStatusStopped, Nil)
    /\ rprobe = NoProbe

\* Start, lines 47 and 176: the runner is running already and Start returns
StartIsNoop(status) == status = ServerStatusRunning

StopIsNoop_Never(status) == FALSE

\* Stop, lines 90 and 196: the runner is not running and Stop returns
StopIsNoop(status) == status # ServerStatusRunning

\* what Process.Kill may do: succeed (TRUE) or fail (FALSE)
KillOutcomes == IF killBudget > 0 THEN {TRUE, FALSE} ELSE {TRUE}

\* LocalServerRunner.HealthCheck: no probe without a health URL
HealthOutcomes == IF runnerCfg.health_url = "" THEN {TRUE} ELSE {TRUE, FALSE}

\* LocalServerRunner.Start; spawned: cmd.Start() succeeded
LocalStart(spawned) ==
    /\ ~crashed
    /\ UNCHANGED <<runnerCfg, stopChan, crashed, killBudget, rstatus, rlast, rprobe>>
    /\ IF StartIsNoop(lstatus)
       THEN /\ llast' = RunnerCall("Start", lstatus, Nil)
            /\ UNCHANGED <<lstatus, loops, procs>>
       ELSE IF runnerCfg.start_cmd = ""
       THEN /\ llast' = RunnerCall("Start", lstatus, ErrorsNew("no start command specified for server"))
            /\ UNCHANGED <<lstatus, loops, procs>>
       ELSE IF ~spawned
       THEN /\ lstatus' = ServerStatusError
            /\ llast' = RunnerCall("Start", lstatus, ErrorsNew("failed to start server"))
            /\ UNCHANGED <<loops, procs>>
       ELSE /\ LiveLoops < MaxLoops
            /\ procs < MaxLoops
            /\ lstatus' = ServerStatusRunning
            /\ procs' = procs + 1
            /\ loops' = [loops EXCEPT !.select = @ + 1]
            /\ llast' = RunnerCall("Start", lstatus, Nil)

\* LocalServerRunner.Stop; killed: Process.Kill() succeeded.  Closing the
\* channel a second time panics.
LocalStop(killed) ==
    /\ ~crashed
    /\ UNCHANGED <<runnerCfg, loops, rstatus, rlast, rprobe>>
    /\ IF StopIsNoop(lstatus)
       THEN /\ llast' = RunnerCall("Stop", lstatus, Nil)
            /\ UNCHANGED <<lstatus, stopChan, procs, crashed, killBudget>>
       ELSE IF stopChan = "closed"
       THEN /\ crashed' = TRUE
            /\ llast' = RunnerCall("Stop", lstatus, Panic("close of closed channel"))
            /\ UNCHANGED <<lstatus, stopChan, procs, killBudget>>
       ELSE IF procs > 0 /\ ~killed
       THEN /\ stopChan' = "closed"
            /\ killBudget' = killBudget - 1
            /\ llast' = RunnerCall("Stop", lstatus, ErrorsNew("failed to stop server"))
            /\ UNCHANGED <<lstatus, procs, crashed>>
       ELSE /\ stopChan' = "closed"
            /\ procs' = IF procs > 0 THEN procs - 1 ELSE 0
            /\ lstatus' = ServerStatusStopped
            /\ llast' = RunnerCall("Stop", lstatus, Nil)
            /\ UNCHANGED <<crashed, killBudget>>

\* healthCheck, line 142: the ticker fires and HealthCheck is called
LoopTick ==
    /\ ~crashed
    /\ loops.select > 0
    /\ loops' = [loops EXCEPT !.select = @ - 1, !.checking = @ + 1]
    /\ llast' = RunnerCall("healthCheck: tick", lstatus, Nil)
    /\ UNCHANGED <<runnerCfg, lstatus, stopChan, procs, crashed, killBudget, rstatus, rlast, rprobe>>

\* healthCheck, line 143: HealthCheck returns; healthy: without error
LoopCheck(healthy) ==
    /\ ~crashed
    /\ loops.checking > 0
    /\ loops' = IF healthy THEN [loops EXCEPT !.checking = @ - 1, !.select = @ + 1]
                ELSE [loops EXCEPT !.checking = @ - 1, !.failed = @ + 1]
    /\ llast' = RunnerCall("healthCheck: probe", lstatus, Nil)
    /\ UNCHANGED <<runnerCfg, lstatus, stopChan, procs, crashed, killBudget, rstatus, rlast, rprobe>>

\* healthCheck, lines 144-146: the failed check is written under the lock
LoopSetError ==
    /\ ~crashed
    /\ loops.failed > 0
    /\ lstatus' = ServerStatusError
    /\ loops' = [loops EXCEPT !.failed = @ - 1, !.select = @ + 1]
    /\ llast' = RunnerCall("healthCheck: failed", lstatus, Nil)
    /\ UNCHANGED <<runnerCfg, stopChan, procs, crashed, killBudget, rstatus, rlast, rprobe>>

\* healthCheck, lines 148-149: the closed channel ends the loop
LoopExit ==
    /\ ~crashed
    /\ loops.select > 0
    /\ stopChan = "closed"
    /\ loops' = [loops EXCEPT !.select = @ - 1]
    /\ llast' = RunnerCall("healthCheck: exit", lstatus, Nil)
    /\ UNCHANGED <<runnerCfg, lstatus, stopChan, procs, crashed, killBudget, rstatus, rlast, rprobe>>

\* RemoteServerRunner.Start; healthy: HealthCheck returned no error
RemoteStart(answer) ==
    /\ ~crashed
    /\ UNCHANGED <<runnerCfg, lstatus, stopChan, loops, procs, crashed, killBudget, llast>>
    /\ IF StartIsNoop(rstatus)
       THEN /\ rlast' = RunnerCall("Start", rstatus, Nil)
            /\ rprobe' = NoProbe
            /\ UNCHANGED rstatus
       ELSE /\ rprobe' = [url |-> RemoteHealthURL, answer |-> answer]
            /\ IF RemoteHealthCheck(answer) # Nil
               THEN /\ rstatus' = ServerStatusError
                    /\ rlast' = RunnerCall("Start", rstatus,
                                           Errorf("server is not accessible: ", RemoteHealthCheck(answer)))
               ELSE /\ rstatus' = ServerStatusRunning
                    /\ rlast' = RunnerCall("Start", rstatus, Nil)

\* RemoteServerRunner.Stop
RemoteStop ==
    /\ ~crashed
    /\ UNCHANGED <<runnerCfg, lstatus, stopChan, loops, procs, crashed, killBudget, llast>>
    /\ rlast' = RunnerCall("Stop", rstatus, Nil)
    /\ rprobe' = NoProbe
    /\ rstatus' = IF StopIsNoop(rstatus) THEN rstatus ELSE ServerStatusStopped

-----------------------------------------------------------------------------
(* Manager (src/internal/core/mcp/manager.go) *)

\* a nil *ToolResult
NilResult == [ToolID |-> "", Status |-> "nil", Result |-> NoPayload, Error |-> ""]

\* the record of a call that is no ExecuteTool: the operation, the server or
\* tool it was about, and the error it returned (arg: the *Server an AddServer
\* was given, the config a Load...FromConfig read, the value a SetAutoApprove
\* or SetTimeout was given)
Call(op, id, err) ==
    [op |-> op, id |-> id, server |-> "", handler |-> "", params |-> EmptyMap, err |-> err,
     res |-> NilResult, invoked |-> NotInvoked, env |-> NoEnv, arg |-> <<>>]

\* the record of a RegisterLocalTool call
RegisterCall(serverID, tool, handler, err) ==
    [Call("RegisterLocalTool", tool.ID, err) EXCEPT !.server = serverID, !.handler = handler]

\* the file at configPath does not exist
NoFile == [missing |-> TRUE]

\* saveConfig, lines 295-307: the document json.MarshalIndent produces
MarshalConfig(s, t, a, d) == [servers |-> s, tools |-> t, auto_approve |-> a, timeout |-> d]

\* json.MarshalIndent of a *Server: the members the model keeps, under their json tags
JSONOfServer(server) == [type |-> server.Type, status |-> server.Status]

\* json.MarshalIndent of a *Tool
JSONOfTool(tool) ==
    [id |-> tool.ID,
     server_id |-> tool.ServerID,
     parameters |-> [i \in 1..Len(tool.Parameters) |->
                        [name |-> tool.Parameters[i].Name, type |-> tool.Parameters[i].Type,
                         required |-> tool.Parameters[i].Required]],
     metadata |-> [endpoint |-> tool.Endpoint]]

\* saveConfig, line 307: the JSON document written for the config struct; a
\* map is written as an object with one member for each key
JSONOfConfig(config) ==
    [servers |-> [k \in DOMAIN config.servers |-> JSONOfServer(config.servers[k])],
     tools |-> [k \in DOMAIN config.tools |-> JSONOfTool(config.tools[k])],
     auto_approve |-> config.auto_approve,
     timeout |-> config.timeout]

\* json.Unmarshal into a *Server
ServerOfJSON(j) == [Type |-> j.type, Status |-> j.status]

\* json.Unmarshal into a *Tool
ToolOfJSON(j) ==
    [ID |-> j.id,
     ServerID |-> j.server_id,
     Parameters |-> [i \in 1..Len(j.parameters) |->
                        [Name |-> j.parameters[i].name, Type |-> j.parameters[i].type,
                         Required |-> j.parameters[i].required]],
     Endpoint |-> j.metadata.endpoint]

loadConfig_TimeoutNotRead(file, registry) ==
    IF file = NoFile THEN registry
    ELSE [servers |-> [k \in DOMAIN JSONOfConfig(file).servers |-> ServerOfJSON(JSONOfConfig(file).servers[k])],
          tools |-> [k \in DOMAIN JSONOfConfig(file).tools |-> ToolOfJSON(JSONOfConfig(file).tools[k])],
          autoApprove |-> JSONOfConfig(file).auto_approve,
          timeout |-> registry.timeout]

\* loadConfig on a Manager holding registry, the file at configPath holding the
\* document saveConfig wrote for the struct file (or missing): the registry after it
loadConfig(file, registry) ==
    IF file = NoFile THEN registry
    ELSE [servers |-> [k \in DOMAIN JSONOfConfig(file).servers |-> ServerOfJSON(JSONOfConfig(file).servers[k])],
          tools |-> [k \in DOMAIN JSONOfConfig(file).tools |-> ToolOfJSON(JSONOfConfig(file).tools[k])],
          autoApprove |-> JSONOfConfig(file).auto_approve,
          timeout |-> JSONOfConfig(file).timeout]

\* what os.WriteFile may do: succeed (TRUE) or fail (FALSE)
WriteOutcomes == IF failBudget > 0 THEN {TRUE, FALSE} ELSE {TRUE}

WriteError == [type |-> "*fs.PathError", msg |-> "write: no space left on device"]

saveConfigError_Swallowed(ok) == Nil

\* saveConfig: the error it returns
saveConfigError(ok) == IF ok THEN Nil ELSE WriteError

\* saveConfig on the registry (s, t, a, d): the file after the call
saveConfig(s, t, a, d, ok) ==
    /\ persisted' = IF ok THEN MarshalConfig(s, t, a, d) ELSE persisted
    /\ failBudget' = IF ok THEN failBudget ELSE failBudget - 1

\* NewManager
NewManager ==
    /\ servers = EmptyMap
    /\ tools = EmptyMap
    /\ executors = EmptyMap
    /\ autoApprove = FALSE
    /\ timeout = DefaultTimeout
    /\ persisted = NoFile
    /\ last = Call("NewManager", "", Nil)

\* uuid.New(): an identifier nothing in the Manager refers to
FreshUUIDs ==
    {u \in UUIDs : /\ u \notin DOMAIN servers
                   /\ u \notin DOMAIN executors
                   /\ \A t \in DOMAIN tools : tools[t].ServerID # u}

AssignID_EmptyKept(server) == {server.ID}

\* AddServer, lines 44-46: the identifier the server is stored under
AssignID(server) == IF server.ID = "" THEN FreshUUIDs ELSE {server.ID}

\* AddServer, line 50: the record stored is the caller's, as passed
StoredServer(server) == [Type |-> server.Type, Status |-> server.Status]

AddServer(server) ==
    \E id \in AssignID(server), ok \in WriteOutcomes :
        /\ servers' = MapPut(servers, id, StoredServer(server))
        /\ UNCHANGED <<tools, executors, autoApprove, timeout>>
        /\ saveConfig(servers', tools, autoApprove, timeout, ok)
        /\ last' = [Call("AddServer", id, saveConfigError(ok)) EXCEPT !.arg = server]

CascadeTools_None(t, serverID) == t

\* RemoveServer, lines 64-68: the tools left after the cascade
CascadeTools(t, serverID) == [id \in {x \in DOMAIN t : t[x].ServerID # serverID} |-> t[id]]

RemoveServer(serverID) ==
    IF serverID \notin DOMAIN servers
    THEN /\ last' = Call("RemoveServer", serverID, ErrorsNew("server not found"))
         /\ UNCHANGED <<servers, tools, executors, autoApprove, timeout, persisted, failBudget>>
    ELSE \E ok \in WriteOutcomes :
         /\ tools' = CascadeTools(tools, serverID)
         /\ servers' = MapDelete(servers, serverID)
         /\ UNCHANGED <<executors, autoApprove, timeout>>
         /\ saveConfig(servers', tools', autoApprove, timeout, ok)
         /\ last' = Call("RemoveServer", serverID, saveConfigError(ok))

SetStatus_EveryServer(s, serverID, status) == [id \in DOMAIN s |-> [s[id] EXCEPT !.Status = status]]

\* StartServer / StopServer, lines 109 and 125: the status written
SetStatus(s, serverID, status) == [s EXCEPT ![serverID].Status = status]

StartServer(serverID) ==
    IF serverID \notin DOMAIN servers
    THEN /\ last' = Call("StartServer", serverID, ErrorsNew("server not found"))
         /\ UNCHANGED <<servers, tools, executors, autoApprove, timeout, persisted, failBudget>>
    ELSE \E ok \in WriteOutcomes :
         /\ servers' = SetStatus(servers, serverID, ServerStatusRunning)
         /\ UNCHANGED <<tools, executors, autoApprove, timeout>>
         /\ saveConfig(servers', tools, autoApprove, timeout, ok)
         /\ last' = Call("StartServer", serverID, saveConfigError(ok))

StopServer(serverID) ==
    IF serverID \notin DOMAIN servers
    THEN /\ last' = Call("StopServer", serverID, ErrorsNew("server not found"))
         /\ UNCHANGED <<servers, tools, executors, autoApprove, timeout, persisted, failBudget>>
    ELSE \E ok \in WriteOutcomes :
         /\ servers' = SetStatus(servers, serverID, ServerStatusStopped)
         /\ UNCHANGED <<tools, executors, autoApprove, timeout>>
         /\ saveConfig(servers', tools, autoApprove, timeout, ok)
         /\ last' = Call("StopServer", serverID, saveConfigError(ok))

SetAutoApprove(enabled) ==
    \E ok \in WriteOutcomes :
        /\ autoApprove' = enabled
        /\ UNCHANGED <<servers, tools, executors, timeout>>
        /\ saveConfig(servers, tools, autoApprove', timeout, ok)
        /\ last' = [Call("SetAutoApprove", "", saveConfigError(ok)) EXCEPT !.arg = enabled]

SetTimeout(d) ==
    \E ok \in WriteOutcomes :
        /\ timeout' = d
        /\ UNCHANGED <<servers, tools, executors, autoApprove>>
        /\ saveConfig(servers, tools, autoApprove, timeout', ok)
        /\ last' = [Call("SetTimeout", "", saveConfigError(ok)) EXCEPT !.arg = d]

ServerIsRunning_IfApproved(server) == server.Status = ServerStatusRunning /\ autoApprove

ServerIsRunning_NotStopped(server) == server.Status # ServerStatusStopped

\* ExecuteTool, line 170: the precondition on the owning server
ServerIsRunning(server) == server.Status = ServerStatusRunning

\* ExecuteTool, lines 175-187: the executor the call uses, as a set (empty when
\* the server's type has no executor)
ExecutorFor(serverID, server) ==
    IF serverID \in DOMAIN executors THEN {executors[serverID]}
    ELSE IF server.Type = ServerTypeLocal THEN {NewLocalExecutor}
    ELSE IF server.Type = ServerTypeRemote THEN {NewHTTPExecutor(timeout)}
    ELSE {}

ToolResultOf_ErrorDropped(toolID, o) ==
    IF o.err # Nil THEN NilResult
    ELSE [ToolID |-> toolID, Status |-> o.result.Status, Result |-> o.result.Result, Error |-> ""]

\* ExecuteTool, lines 191-203: what the call returns for the executor's answer
ToolResultOf(toolID, o) ==
    IF o.err # Nil THEN NilResult
    ELSE [ToolID |-> toolID, Status |-> o.result.Status, Result |-> o.result.Result,
          Error |-> o.result.Error]

\* the answer of a call that did not reach an executor
Refused(err) == [err |-> err, result |-> NilExecResult, invoked |-> NotInvoked, env |-> NoEnv]

ExecuteToolOutcomes_AbsentAsStopped(toolID, params, envs) ==
    IF toolID \notin DOMAIN tools
    THEN {[executors |-> executors, o |-> Refused(ErrorsNew("tool not found"))]}
    ELSE LET tool == tools[toolID] IN
    IF tool.ServerID \notin DOMAIN servers \/ ~ServerIsRunning(servers[tool.ServerID])
    THEN {[executors |-> executors, o |-> Refused(ErrorsNew("server is not running"))]}
    ELSE IF ExecutorFor(tool.ServerID, servers[tool.ServerID]) = {}
    THEN {[executors |-> executors, o |-> Refused(ErrorsNew("unsupported server type: " \o servers[tool.ServerID].Type))]}
    ELSE {[executors |-> MapPut(executors, tool.ServerID, e), o |-> o] :
             e \in ExecutorFor(tool.ServerID, servers[tool.ServerID]),
             o \in UNION {Execute(x, tool, params, envs) : x \in ExecutorFor(tool.ServerID, servers[tool.ServerID])}}

\* ExecuteTool(toolID, params) in one of the environments envs: the set of
\* outcomes of the call, each the executors map after it and the executor's answer
ExecuteToolOutcomes(toolID, params, envs) ==
    IF toolID \notin DOMAIN tools
    THEN {[executors |-> executors, o |-> Refused(ErrorsNew("tool not found"))]}
    ELSE LET tool == tools[toolID] IN
    IF tool.ServerID \notin DOMAIN servers
    THEN {[executors |-> executors, o |-> Refused(Errorf("server error: ", ErrorsNew("server not found")))]}
    ELSE LET server == servers[tool.ServerID] IN
    IF ~ServerIsRunning(server)
    THEN {[executors |-> executors, o |-> Refused(ErrorsNew("server is not running"))]}
    ELSE IF ExecutorFor(tool.ServerID, server) = {}
    THEN {[executors |-> executors, o |-> Refused(ErrorsNew("unsupported server type: " \o server.Type))]}
    ELSE {[executors |-> MapPut(executors, tool.ServerID, e), o |-> o] :
             e \in ExecutorFor(tool.ServerID, server),
             o \in UNION {Execute(x, tool, params, envs) : x \in ExecutorFor(tool.ServerID, server)}}

\* the record of an ExecuteTool call that returned the executor's answer o
ExecuteCall(toolID, params, o) ==
    [op |-> "ExecuteTool", id |-> toolID, server |-> "", handler |-> "", params |-> params,
     err |-> o.err, res |-> ToolResultOf(toolID, o), invoked |-> o.invoked, env |-> o.env,
     arg |-> <<>>]

ExecuteTool_StartsServer(toolID, params, envs) ==
    \E r \in ExecuteToolOutcomes(toolID, params, envs) :
        /\ executors' = r.executors
        /\ servers' = IF toolID \in DOMAIN tools /\ tools[toolID].ServerID \in DOMAIN servers
                      THEN [servers EXCEPT ![tools[toolID].ServerID].Status = ServerStatusRunning]
                      ELSE servers
        /\ UNCHANGED <<tools, autoApprove, timeout, persisted, failBudget>>
        /\ last' = ExecuteCall(toolID, params, r.o)

ExecuteTool(toolID, params, envs) ==
    \E r \in ExecuteToolOutcomes(toolID, params, envs) :
        /\ executors' = r.executors
        /\ UNCHANGED <<servers, tools, autoApprove, timeout, persisted, failBudget>>
        /\ last' = ExecuteCall(toolID, params, r.o)

\* RegisterLocalTool, lines 272-275: the tool stored
AttachTool(t, serverID, tool) == MapPut(t, tool.ID, [tool EXCEPT !.ServerID = serverID])

\* RegisterLocalTool, lines 278-282: the executor of the server, created if absent
LocalExecutorOf(serverID) ==
    IF serverID \in DOMAIN executors THEN executors[serverID] ELSE NewLocalExecutor

RegisterLocalTool(serverID, tool, handler) ==
    IF serverID \notin DOMAIN servers
    THEN /\ last' = RegisterCall(serverID, tool, handler, ErrorsNew("server not found"))
         /\ UNCHANGED <<servers, tools, executors, autoApprove, timeout, persisted, failBudget>>
    ELSE IF servers[serverID].Type # ServerTypeLocal
    THEN /\ last' = RegisterCall(serverID, tool, handler, ErrorsNew("server is not a local server"))
         /\ UNCHANGED <<servers, tools, executors, autoApprove, timeout, persisted, failBudget>>
    ELSE IF LocalExecutorOf(serverID).kind # "local"
    THEN /\ tools' = AttachTool(tools, serverID, tool)
         /\ last' = RegisterCall(serverID, tool, handler, ErrorsNew("invalid executor type"))
         /\ UNCHANGED <<servers, executors, autoApprove, timeout, persisted, failBudget>>
    ELSE \E ok \in WriteOutcomes :
         /\ tools' = AttachTool(tools, serverID, tool)
         /\ executors' = MapPut(executors, serverID, RegisterHandler(LocalExecutorOf(serverID), tool.ID, handler))
         /\ UNCHANGED <<servers, autoApprove, timeout>>
         /\ saveConfig(servers, tools', autoApprove, timeout, ok)
         /\ last' = RegisterCall(serverID, tool, handler, saveConfigError(ok))

\* LoadToolFromConfig / LoadServerFromConfig: the tool built from a tool config
ToolOfConfig(config, serverID) ==
    [ID |-> config.ID, ServerID |-> serverID, Parameters |-> config.Parameters, Endpoint |-> config.Endpoint]

\* LoadServerFromConfig, lines 407-424: the tools after the loop over config.Tools
RECURSIVE LoadTools(_, _, _)
LoadTools(t, toolConfigs, serverID) ==
    IF toolConfigs = <<>> THEN t
    ELSE LoadTools(MapPut(t, Head(toolConfigs).ID, ToolOfConfig(Head(toolConfigs), serverID)),
                   Tail(toolConfigs), serverID)

ServerOfConfig_StatusKept(config) ==
    [Type |-> config.Type,
     Status |-> IF config.ID \in DOMAIN servers THEN servers[config.ID].Status ELSE ServerStatusStopped]

\* LoadServerFromConfig, lines 388-399: the server built from the config
ServerOfConfig(config) == [Type |-> config.Type, Status |-> ServerStatusStopped]

\* LoadToolFromConfig with one caller at a time
LoadToolFromConfig(config) ==
    IF LoadToolConfig(config) # Nil
    THEN /\ last' = [Call("LoadToolFromConfig", config.ID, Errorf("failed to load tool config: ", LoadToolConfig(config)))
                        EXCEPT !.arg = config]
         /\ UNCHANGED <<servers, tools, executors, autoApprove, timeout, persisted, failBudget>>
    ELSE \E ok \in WriteOutcomes :
         /\ tools' = MapPut(tools, config.ID, ToolOfConfig(config, ""))
         /\ UNCHANGED <<servers, executors, autoApprove, timeout>>
         /\ saveConfig(servers, tools', autoApprove, timeout, ok)
         /\ last' = [Call("LoadToolFromConfig", config.ID, saveConfigError(ok)) EXCEPT !.arg = config]

\* LoadServerFromConfig with one caller at a time
LoadServerFromConfig(config) ==
    IF LoadServerConfig(config) # Nil
    THEN /\ last' = [Call("LoadServerFromConfig", config.ID, Errorf("failed to load server config: ", LoadServerConfig(config)))
                        EXCEPT !.arg = config]
         /\ UNCHANGED <<servers, tools, executors, autoApprove, timeout, persisted, failBudget>>
    ELSE \E ok \in WriteOutcomes :
         /\ servers' = MapPut(servers, config.ID, ServerOfConfig(config))
         /\ tools' = LoadTools(tools, config.Tools, config.ID)
         /\ UNCHANGED <<executors, autoApprove, timeout>>
         /\ saveConfig(servers', tools', autoApprove, timeout, ok)
         /\ last' = [Call("LoadServerFromConfig", config.ID, saveConfigError(ok)) EXCEPT !.arg = config]

\* a file of a config directory: its path and the config it holds
DirFile(path, config) == [path |-> path, config |-> config]

\* filepath.Glob on a dirPath that is a malformed pattern
ErrBadPattern == ErrorsNew("syntax error in pattern")

\* The registry as a scan of a directory goes: saves counts the saveConfig
\* calls made; the one numbered failAt fails to write (0: none fails).
\* LoadServerFromConfig, lines 381-427, on such a registry
LoadServerInto(reg, config, failAt) ==
    IF LoadServerConfig(config) # Nil
    THEN [reg EXCEPT !.err = Errorf("failed to load server config: ", LoadServerConfig(config))]
    ELSE LET s == MapPut(reg.servers, config.ID, ServerOfConfig(config))
             t == LoadTools(reg.tools, config.Tools, config.ID)
             ok == reg.saves + 1 # failAt
         IN  [servers |-> s, tools |-> t,
              persisted |-> IF ok THEN MarshalConfig(s, t, autoApprove, timeout) ELSE reg.persisted,
              saves |-> reg.saves + 1, err |-> saveConfigError(ok)]

\* LoadToolFromConfig, lines 353-378, on such a registry
LoadToolInto(reg, config, failAt) ==
    IF LoadToolConfig(config) # Nil
    THEN [reg EXCEPT !.err = Errorf("failed to load tool config: ", LoadToolConfig(config))]
    ELSE LET t == MapPut(reg.tools, config.ID, ToolOfConfig(config, ""))
             ok == reg.saves + 1 # failAt
         IN  [servers |-> reg.servers, tools |-> t,
              persisted |-> IF ok THEN MarshalConfig(reg.servers, t, autoApprove, timeout) ELSE reg.persisted,
              saves |-> reg.saves + 1, err |-> saveConfigError(ok)]

ScanStops_Never(err) == FALSE

\* LoadConfigsFromDirectory, lines 438 and 450: the error of a file ends the scan
ScanStops(err) == err # Nil

\* LoadConfigsFromDirectory, lines 437-441: the loop over the server files
RECURSIVE ScanServers(_, _, _)
ScanServers(reg, files, failAt) ==
    IF files = <<>> THEN reg
    ELSE LET r == LoadServerInto(reg, Head(files).config, failAt) IN
         IF ScanStops(r.err)
         THEN [r EXCEPT !.err = Errorf("failed to load server config " \o Head(files).path \o ": ", r.err)]
         ELSE ScanServers(r, Tail(files), failAt)

\* LoadConfigsFromDirectory, lines 449-453: the loop over the tool files
RECURSIVE ScanTools(_, _, _)
ScanTools(reg, files, failAt) ==
    IF files = <<>> THEN reg
    ELSE LET r == LoadToolInto(reg, Head(files).config, failAt) IN
         IF ScanStops(r.err)
         THEN [r EXCEPT !.err = Errorf("failed to load tool config " \o Head(files).path \o ": ", r.err)]
         ELSE ScanTools(r, Tail(files), failAt)

\* LoadConfigsFromDirectory with one caller at a time.  dir.servers and
\* dir.tools are what the two Glob calls return, sorted by name; dir.bad: the
\* path is a malformed pattern.
LoadConfigsFromDirectory(dir, failAt) ==
    LET reg0 == [servers |-> servers, tools |-> tools, persisted |-> persisted, saves |-> 0, err |-> Nil]
        r1 == ScanServers(reg0, dir.servers, failAt)
        r2 == IF dir.bad
              THEN [reg0 EXCEPT !.err = Errorf("failed to find server configs: ", ErrBadPattern)]
              ELSE IF ScanStops(r1.err) THEN r1
              ELSE ScanTools(r1, dir.tools, failAt)
    IN  /\ failAt > 0 => failBudget > 0
        /\ servers' = r2.servers
        /\ tools' = r2.tools
        /\ persisted' = r2.persisted
        /\ failBudget' = IF failAt > 0 /\ r2.saves >= failAt THEN failBudget - 1 ELSE failBudget
        /\ last' = [Call("LoadConfigsFromDirectory", "", r2.err) EXCEPT !.arg = dir]
        /\ UNCHANGED <<executors, autoApprove, timeout>>

-----------------------------------------------------------------------------
(* Application configuration (package config, src/unnamed/part_003) *)

\* how many *Config values are allocated at most
MaxInstances == 2

ModelTypeClaude == "claude-3-sonnet-20240229"

ModelTypeDoubao == "doubao"

\* DefaultConfig(): the members of Config the model keeps
DefaultConfig ==
    [Port |-> 8080, ModelType |-> ModelTypeClaude, AllowedExts |-> <<".go", ".lua", ".md", ".txt">>]

\* a config file that is no JSON document
GarbageFile == [garbage |-> TRUE]

\* json.MarshalIndent(cfg): the document, members under their json tags
JSONOfAppConfig(cfg) ==
    [server |-> [port |-> cfg.Port],
     model |-> [type |-> cfg.ModelType],
     file |-> [allowed_exts |-> cfg.AllowedExts]]

UnmarshalAppConfig_PortKept(doc, cfg) ==
    [cfg EXCEPT !.ModelType = doc.model.type, !.AllowedExts = doc.file.allowed_exts]

\* json.Unmarshal(data, config): the members the document holds are written
\* over those of the value config points to
UnmarshalAppConfig(doc, cfg) ==
    [cfg EXCEPT !.Port = doc.server.port,
                !.ModelType = doc.model.type,
                !.AllowedExts = doc.file.allowed_exts]

\* loadFromEnv: VIMCOPLIT_PORT, when set, is scanned into Server.Port
loadFromEnv(cfg) == IF envPort = "7000" THEN [cfg EXCEPT !.Port = 7000] ELSE cfg

\* the record of a call of package config
AppCall(op, arg, ret, err) == [op |-> op, arg |-> arg, ret |-> ret, err |-> err]

\* package config before any call
NoApp ==
    /\ globalConfig = 0
    /\ once = FALSE
    /\ heap = <<>>
    /\ held = {}
    /\ got = {}
    /\ cfgFile = NoFile
    /\ savedCfg = NoFile
    /\ envPort = ""
    /\ alast = AppCall("", 0, 0, Nil)

GetConfig ==
    /\ IF globalConfig = 0
       THEN /\ Len(heap) < MaxInstances
            /\ heap' = Append(heap, DefaultConfig)
            /\ globalConfig' = Len(heap) + 1
       ELSE UNCHANGED <<heap, globalConfig>>
    /\ held' = held \cup {globalConfig'}
    /\ got' = got \cup {globalConfig'}
    /\ alast' = AppCall("GetConfig", 0, globalConfig', Nil)
    /\ UNCHANGED <<once, cfgFile, savedCfg, envPort>>

\* SaveConfig(configPath, cfg), cfg the value at address a; written: whether
\* os.MkdirAll and os.WriteFile succeed
SaveConfig(a, written) ==
    /\ a \in held
    /\ IF written
       THEN /\ cfgFile' = JSONOfAppConfig(heap[a])
            /\ savedCfg' = heap[a]
            /\ alast' = AppCall("SaveConfig", a, 0, Nil)
       ELSE /\ UNCHANGED <<cfgFile, savedCfg>>
            /\ alast' = AppCall("SaveConfig", a, 0, ErrorsNew("failed to write config file"))
    /\ UNCHANGED <<globalConfig, once, heap, held, got, envPort>>

\* LoadConfig(configPath) of the path of cfgFile; written: whether the write of
\* the default file succeeds when the file is missing
LoadConfig(written) ==
    /\ once \/ Len(heap) < MaxInstances
    /\ LET h == IF once THEN heap ELSE Append(heap, DefaultConfig)
           cfg == IF once THEN globalConfig ELSE Len(heap) + 1
       IN  /\ globalConfig' = cfg
           /\ once' = TRUE
           /\ IF cfgFile = NoFile
              THEN /\ heap' = h
                   /\ IF written
                      THEN /\ cfgFile' = JSONOfAppConfig(h[cfg])
                           /\ savedCfg' = h[cfg]
                           /\ held' = held \cup {cfg}
                           /\ alast' = AppCall("LoadConfig", cfgFile, cfg, Nil)
                      ELSE /\ UNCHANGED <<cfgFile, savedCfg, held>>
                           /\ alast' = AppCall("LoadConfig", cfgFile, 0,
                                               Errorf("failed to create default config: ",
                                                      ErrorsNew("failed to write config file")))
              ELSE IF cfgFile = GarbageFile
              THEN /\ heap' = h
                   /\ UNCHANGED <<cfgFile, savedCfg, held>>
                   /\ alast' = AppCall("LoadConfig", cfgFile, 0, ErrorsNew("failed to parse config file"))
              ELSE /\ heap' = [h EXCEPT ![cfg] = loadFromEnv(UnmarshalAppConfig(cfgFile, h[cfg]))]
                   /\ held' = held \cup {cfg}
                   /\ UNCHANGED <<cfgFile, savedCfg>>
                   /\ alast' = AppCall("LoadConfig", cfgFile, cfg, Nil)
    /\ UNCHANGED <<got, envPort>>

\* a caller makes a Config of its own with DefaultConfig()
CallerDefaultConfig ==
    /\ Len(heap) < MaxInstances
    /\ heap' = Append(heap, DefaultConfig)
    /\ held' = held \cup {Len(heap) + 1}
    /\ alast' = AppCall("DefaultConfig", 0, Len(heap) + 1, Nil)
    /\ UNCHANGED <<globalConfig, once, got, cfgFile, savedCfg, envPort>>

\* a caller writes members of a Config it holds (cfg.Server.Port = ..., cfg.Model.Type = ...)
CallerModify(a, port, type) ==
    /\ a \in held
    /\ heap' = [heap EXCEPT ![a] = [@ EXCEPT !.Port = port, !.ModelType = type]]
    /\ alast' = AppCall("Modify", a, 0, Nil)
    /\ UNCHANGED <<globalConfig, once, held, got, cfgFile, savedCfg, envPort>>

\* Threads calling the Manager at the same time

Threads == {"A", "B"}

NoTool == [ID |-> "", ServerID |-> "", Parameters |-> <<>>, Endpoint |-> ""]

NoServer == [Type |-> "", Status |-> ""]

NoExecutor == [kind |-> "none", timeout |-> 0, handlers |-> EmptyMap]

\* a thread that is in no Manager call
Idle ==
    [pc |-> "idle", op |-> "", id |-> "", rest |-> <<>>, data |-> NoFile,
     tool |-> NoTool, server |-> NoServer, exec |-> NoExecutor, nested |-> FALSE]

NoCallers ==
    /\ mu = ""
    /\ th = [t \in Threads |-> Idle]
    /\ allOK = TRUE


\* The scenario of the spec's section 8: AddServer of a Local server (step 1),
\* StartServer of it (step 2), RegisterLocalTool on it (step 3), ExecuteTool of
\* that tool (step 4), each call directly after the other and each but the last
\* returning nil.  Scenario(sc, l, srv) is the step reached once call l has
\* returned, srv being the servers map after it.
NoScenario == [step |-> 0, server |-> "", tool |-> "", handler |-> ""]

Scenario(sc, l, srv) ==
    IF l.op = "AddServer" /\ l.err = Nil /\ srv[l.id].Type = ServerTypeLocal
    THEN [step |-> 1, server |-> l.id, tool |-> "", handler |-> ""]
    ELSE IF sc.step = 1 /\ l.op = "StartServer" /\ l.err = Nil /\ l.id = sc.server
    THEN [sc EXCEPT !.step = 2]
    ELSE IF sc.step = 2 /\ l.op = "RegisterLocalTool" /\ l.err = Nil /\ l.server = sc.server
    THEN [sc EXCEPT !.step = 3, !.tool = l.id, !.handler = l.handler]
    ELSE IF sc.step = 3 /\ l.op = "ExecuteTool" /\ l.id = sc.tool
    THEN [sc EXCEPT !.step = 4]
    ELSE NoScenario

\* The Manager called by one caller at a time
Init ==
    /\ NewManager
    /\ failBudget = 0
    /\ scn = NoScenario
    /\ NewRunners
    /\ NoApp
    /\ removed = {}
    /\ NoHolders
    /\ NoCallers
    /\ runnerCfg = [start_cmd |-> "", health_url |-> ""]
    /\ killBudget = 0

\* the scenario is followed as each call returns
Observe ==
    /\ scn' = Scenario(scn, last', servers')
    /\ UNCHANGED <<runnerVars, appVars, histVars, lockVars, concVars>>

Next ==
    \/ \E server \in ServerInputs : AddServer(server) /\ Observe
    \/ \E serverID \in ServerIDs : RemoveServer(serverID) /\ Observe
    \/ \E serverID \in ServerIDs : StartServer(serverID) /\ Observe
    \/ \E serverID \in ServerIDs : StopServer(serverID) /\ Observe
    \/ \E enabled \in BOOLEAN : SetAutoApprove(enabled) /\ Observe
    \/ \E d \in TimeoutValues : SetTimeout(d) /\ Observe
    \/ \E toolID \in ToolIDs, params \in ParamMaps : ExecuteTool(toolID, params, Envs) /\ Observe
    \/ \E serverID \in ServerIDs, reg \in Registrations :
          RegisterLocalTool(serverID, ToolInput(reg.tool), reg.handler) /\ Observe
    \/ \E config \in ToolConfigFiles : LoadToolFromConfig(config) /\ Observe
    \/ \E config \in ServerConfigFiles : LoadServerFromConfig(config) /\ Observe

Spec == Init /\ [][Next]_vars

\* Config files that differ from a well-formed one in one field
ToolFileVariants ==
    LET ok == ToolConfig("t1", "tool one", "http://svc/t1") IN
    { ok,
      [ok EXCEPT !.ID = ""], [ok EXCEPT !.Name = ""], [ok EXCEPT !.Version = ""],
      [ok EXCEPT !.Parameters = <<Param("x", "string", TRUE), Param("", "number", FALSE)>>],
      [ok EXCEPT !.Parameters = <<Param("x", "", TRUE)>>],
      [ok EXCEPT !.Parameters = <<>>],
      [ok EXCEPT !.Timeout = -1], [ok EXCEPT !.Timeout = 5],
      [ok EXCEPT !.RetryCount = -1], [ok EXCEPT !.RetryDelay = -1],
      [ok EXCEPT !.Concurrency = -1], [ok EXCEPT !.RateLimit = -1],
      [ok EXCEPT !.LogMaxSize = -1], [ok EXCEPT !.LogMaxFiles = -1] }

ServerFileVariants ==
    LET ok == ServerConfig("s1", "local one", ServerTypeLocal, <<ToolConfig("t2", "tool two", "")>>) IN
    { ok,
      [ok EXCEPT !.ID = ""], [ok EXCEPT !.Name = ""], [ok EXCEPT !.Version = ""], [ok EXCEPT !.Type = ""],
      [ok EXCEPT !.Port = -1], [ok EXCEPT !.Port = 0], [ok EXCEPT !.Port = 65535], [ok EXCEPT !.Port = 65536],
      [ok EXCEPT !.SSLEnabled = TRUE],
      [ok EXCEPT !.SSLEnabled = TRUE, !.SSLCertFile = "cert.pem"],
      [ok EXCEPT !.SSLEnabled = TRUE, !.SSLKeyFile = "key.pem"],
      [ok EXCEPT !.SSLEnabled = TRUE, !.SSLCertFile = "cert.pem", !.SSLKeyFile = "key.pem"],
      [ok EXCEPT !.ReadTimeout = -1], [ok EXCEPT !.WriteTimeout = -1],
      [ok EXCEPT !.IdleTimeout = -1], [ok EXCEPT !.ShutdownTimeout = -1] }
    \cup {[ok EXCEPT !.Tools = <<ToolConfig("t2", "tool two", ""), t>>] : t \in ToolFileVariants}

ConfigNext ==
    \/ \E config \in ToolFileVariants : LoadToolFromConfig(config) /\ Observe
    \/ \E config \in ServerFileVariants : LoadServerFromConfig(config) /\ Observe
    \/ \E serverID \in ServerIDs : RemoveServer(serverID) /\ Observe

ConfigSpec == Init /\ [][ConfigNext]_vars

\* The handlers of removed servers.  Removed(rm, l, t, e) is the set after call
\* l has returned, t and e being the tools and the executors before it:
\* RemoveServer(id) returning nil (manager.go 55-72) adds the handler of every
\* tool that belonged to the server; a RegisterLocalTool that reached
\* RegisterHandler (line 285) takes the handlers of that server and tool out.
Removed(rm, l, t, e) ==
    IF l.op = "RemoveServer" /\ l.err = Nil
    THEN rm \cup {<<l.id, x, e[l.id].handlers[x]>> :
                     x \in {y \in DOMAIN t : /\ t[y].ServerID = l.id
                                              /\ l.id \in DOMAIN e
                                              /\ y \in DOMAIN e[l.id].handlers}}
    ELSE IF /\ l.op = "RegisterLocalTool"
            /\ l.err \notin {ErrorsNew("server not found"), ErrorsNew("server is not a local server"),
                              ErrorsNew("invalid executor type")}
    THEN {r \in rm : ~(r[1] = l.server /\ r[2] = l.id)}
    ELSE rm

\* the handlers of removed servers are followed as each call returns
ObserveRemoved ==
    /\ scn' = Scenario(scn, last', servers')
    /\ removed' = Removed(removed, last', tools, executors)
    /\ UNCHANGED <<runnerVars, appVars, concVars, lockVars>>

\* Local servers removed and created again, by AddServer and from files
HandlerServerInputs == {s \in ServerInputs : s.Type = ServerTypeLocal}

HandlerServerFiles == {c \in ServerConfigFiles : c.Type = ServerTypeLocal}

HandlerEnv == {e \in HandlerEnvs : e.ctx = "live" /\ e.err = Nil}

HandlerNext ==
    \/ \E server \in HandlerServerInputs : AddServer(server) /\ ObserveRemoved
    \/ \E serverID \in ServerIDs : RemoveServer(serverID) /\ ObserveRemoved
    \/ \E serverID \in ServerIDs : StartServer(serverID) /\ ObserveRemoved
    \/ \E serverID \in ServerIDs, handler \in HandlerIDs :
          RegisterLocalTool(serverID, ToolInput("t2"), handler) /\ ObserveRemoved
    \/ \E config \in ToolConfigFiles : LoadToolFromConfig(config) /\ ObserveRemoved
    \/ \E config \in HandlerServerFiles : LoadServerFromConfig(config) /\ ObserveRemoved
    \/ \E toolID \in ToolIDs : ExecuteTool(toolID, [n |-> "[]interface{}"], HandlerEnv) /\ ObserveRemoved

HandlerSpec == Init /\ [][HandlerNext]_vars

\* Tool.ValidateParameters called on a tool with the given declaration
CallValidateParameters(Parameters, params) ==
    /\ \E e \in ValidateParametersErrors(Parameters, params) :
          last' = [Call("ValidateParameters", "", e) EXCEPT !.arg = Parameters, !.params = params]
    /\ UNCHANGED <<servers, tools, executors, autoApprove, timeout, persisted, failBudget>>

\* the declarations of the tools validated: none, x alone, x and n; x a string,
\* a number or of the undefined tag integer, n a boolean, an array or an object
Declarations ==
    {<<>>}
    \cup {<<Param("x", t, r)>> : t \in {"string", "number", "integer"}, r \in BOOLEAN}
    \cup {<<Param("x", t, r), Param("n", u, q)>> :
             t \in {"string", "number", "integer"}, r \in BOOLEAN,
             u \in {"boolean", "array", "object"}, q \in BOOLEAN}

\* the dynamic types of the values supplied under each key
SuppliedValues(name) ==
    IF name = "x" THEN {"string", "int", "nil"}
    ELSE IF name = "n" THEN {"bool", "[]interface{}", "map[string]interface{}"}
    ELSE {"string"}

\* the parameter maps validated: x, n and the undeclared u, each absent or held
SuppliedMaps ==
    UNION {{f \in [keys -> GoTypes] : \A k \in keys : f[k] \in SuppliedValues(k)} :
              keys \in SUBSET {"x", "n", "u"}}

ValidateNext ==
    \E Parameters \in Declarations, params \in SuppliedMaps :
        CallValidateParameters(Parameters, params) /\ Observe

ValidateSpec == Init /\ [][ValidateNext]_vars

\* The Manager on a disk where writes of the registry file may fail
FaultInit ==
    /\ NewManager
    /\ failBudget = MaxWriteFailures
    /\ scn = NoScenario
    /\ NewRunners
    /\ NoApp
    /\ removed = {}
    /\ NoHolders
    /\ NoCallers
    /\ runnerCfg = [start_cmd |-> "", health_url |-> ""]
    /\ killBudget = 0

FaultNext ==
    \/ \E server \in {x \in ServerInputs : x.Type = ServerTypeLocal} : AddServer(server) /\ Observe
    \/ \E serverID \in ServerIDs : RemoveServer(serverID) /\ Observe
    \/ \E serverID \in ServerIDs : StartServer(serverID) /\ Observe
    \/ \E serverID \in ServerIDs : StopServer(serverID) /\ Observe
    \/ \E enabled \in BOOLEAN : SetAutoApprove(enabled) /\ Observe
    \/ \E d \in TimeoutValues : SetTimeout(d) /\ Observe
    \/ \E serverID \in ServerIDs : RegisterLocalTool(serverID, ToolInput("t2"), "h2") /\ Observe

FaultSpec == FaultInit /\ [][FaultNext]_vars

\* The files a config directory may hold: servers/a.json and servers/b.json,
\* tools/a.json and tools/b.json, each absent, valid, or (but the last) without
\* a name
DirServerFile(path, id, name, toolID) ==
    DirFile(path, ServerConfig(id, name, ServerTypeLocal, <<ToolConfig(toolID, "tool", "")>>))

DirServerFilesA ==
    {<<>>, <<DirServerFile("servers/a.json", "s1", "one", "t2")>>, <<DirServerFile("servers/a.json", "s1", "", "t2")>>}

DirServerFilesB ==
    {<<>>, <<DirServerFile("servers/b.json", "s2", "two", "t3")>>, <<DirServerFile("servers/b.json", "s2", "", "t3")>>}

DirToolFilesA ==
    {<<>>, <<DirFile("tools/a.json", ToolConfig("t1", "tool one", ""))>>,
     <<DirFile("tools/a.json", ToolConfig("t1", "", ""))>>}

DirToolFilesB == {<<>>, <<DirFile("tools/b.json", ToolConfig("t4", "tool four", ""))>>}

Directories ==
    {[servers |-> a \o b, tools |-> c \o d, bad |-> FALSE] :
        a \in DirServerFilesA, b \in DirServerFilesB, c \in DirToolFilesA, d \in DirToolFilesB}
    \cup {[servers |-> <<>>, tools |-> <<>>, bad |-> TRUE]}

\* the saveConfig call of a scan that fails to write (0: none)
MaxFiles == 4

\* The Manager on a disk where one write of the registry file may fail
DirectoryInit ==
    /\ NewManager
    /\ failBudget = 1
    /\ scn = NoScenario
    /\ NewRunners
    /\ NoApp
    /\ removed = {}
    /\ NoHolders
    /\ NoCallers
    /\ runnerCfg = [start_cmd |-> "", health_url |-> ""]
    /\ killBudget = 0

DirectoryNext ==
    \/ \E dir \in Directories, failAt \in 0..MaxFiles :
          /\ failAt <= Len(dir.servers) + Len(dir.tools)
          /\ LoadConfigsFromDirectory(dir, failAt)
          /\ Observe
    \/ \E serverID \in {"s1", "s2"} : RemoveServer(serverID) /\ Observe

DirectorySpec == DirectoryInit /\ [][DirectoryNext]_vars

\* Package config, called by one caller at a time; the config file is missing
\* or no JSON document at first, VIMCOPLIT_PORT is set or not
AppInit ==
    /\ NewManager
    /\ failBudget = 0
    /\ scn = NoScenario
    /\ NewRunners
    /\ NoCallers
    /\ runnerCfg = [start_cmd |-> "", health_url |-> ""]
    /\ killBudget = 0
    /\ removed = {}
    /\ NoHolders
    /\ globalConfig = 0
    /\ once = FALSE
    /\ heap = <<>>
    /\ held = {}
    /\ got = {}
    /\ cfgFile \in {NoFile, GarbageFile}
    /\ savedCfg = NoFile
    /\ envPort \in {"", "7000"}
    /\ alast = AppCall("", 0, 0, Nil)

AppNext ==
    \/ GetConfig /\ UNCHANGED <<mgrVars, runnerVars, concVars, histVars, lockVars>>
    \/ \E written \in BOOLEAN : LoadConfig(written) /\ UNCHANGED <<mgrVars, runnerVars, concVars, histVars, lockVars>>
    \/ \E a \in 1..MaxInstances, written \in BOOLEAN :
          SaveConfig(a, written) /\ UNCHANGED <<mgrVars, runnerVars, concVars, histVars, lockVars>>
    \/ CallerDefaultConfig /\ UNCHANGED <<mgrVars, runnerVars, concVars, histVars, lockVars>>
    \/ \E a \in 1..MaxInstances, port \in {8080, 9090}, type \in {ModelTypeClaude, ModelTypeDoubao} :
          CallerModify(a, port, type) /\ UNCHANGED <<mgrVars, runnerVars, concVars, histVars, lockVars>>

AppSpec == AppInit /\ [][AppNext]_vars

\* The tools of a Remote server loaded from its file, called with every answer
\* of the remote end
RemoteServerFiles == {c \in ServerConfigFiles : c.Type = ServerTypeRemote /\ LoadServerConfig(c) = Nil}

RemoteNext ==
    \/ \E config \in RemoteServerFiles : LoadServerFromConfig(config) /\ Observe
    \/ \E serverID \in ServerIDs : StartServer(serverID) /\ Observe
    \/ \E serverID \in ServerIDs : StopServer(serverID) /\ Observe
    \/ \E d \in TimeoutValues : SetTimeout(d) /\ Observe
    \/ \E toolID \in ToolIDs, params \in ParamMaps : ExecuteTool(toolID, params, HTTPEnvs) /\ Observe

RemoteSpec == Init /\ [][RemoteNext]_vars

\* The registry of servers: callers that add servers under two identifiers of
\* their own or under none, with and without an embedded tool list
RegistryServerIDs == {"s1", "s2"}

RegistryServerInputs ==
    [ID : {""} \cup RegistryServerIDs,
     Type : {ServerTypeLocal},
     Status : {"", ServerStatusRunning},
     Tools : {<<>>, <<ToolInput("t1")>>}]

RegistryNext ==
    \/ \E server \in RegistryServerInputs : AddServer(server) /\ Observe
    \/ \E serverID \in RegistryServerIDs \cup UUIDs : RemoveServer(serverID) /\ Observe
    \/ \E serverID \in RegistryServerIDs \cup UUIDs : StartServer(serverID) /\ Observe
    \/ \E serverID \in RegistryServerIDs \cup UUIDs : StopServer(serverID) /\ Observe
    \/ SetAutoApprove(TRUE) /\ Observe
    \/ SetTimeout(OtherTimeout) /\ Observe
    \/ \E serverID \in RegistryServerIDs : RegisterLocalTool(serverID, ToolInput("t2"), "h2") /\ Observe

RegistrySpec == Init /\ [][RegistryNext]_vars

\* One Local and one Remote runner, each called by one caller at a time, with
\* the health-check goroutines of the Local runner running beside the calls
RunnerInit ==
    /\ NewManager
    /\ failBudget = 0
    /\ scn = NoScenario
    /\ NewRunners
    /\ NoApp
    /\ removed = {}
    /\ NoHolders
    /\ NoCallers
    /\ runnerCfg \in [start_cmd : {"", "echo started"}, health_url : {"", "http://localhost/health"}]
    /\ killBudget = 0

RunnerNext ==
    \/ \E spawned \in BOOLEAN : LocalStart(spawned) /\ UNCHANGED <<mgrVars, concVars, appVars, histVars, lockVars>>
    \/ \E killed \in KillOutcomes : LocalStop(killed) /\ UNCHANGED <<mgrVars, concVars, appVars, histVars, lockVars>>
    \/ LoopTick /\ UNCHANGED <<mgrVars, concVars, appVars, histVars, lockVars>>
    \/ \E healthy \in HealthOutcomes : LoopCheck(healthy) /\ UNCHANGED <<mgrVars, concVars, appVars, histVars, lockVars>>
    \/ LoopSetError /\ UNCHANGED <<mgrVars, concVars, appVars, histVars, lockVars>>
    \/ LoopExit /\ UNCHANGED <<mgrVars, concVars, appVars, histVars, lockVars>>
    \/ \E answer \in ProbeAnswers : RemoteStart(answer) /\ UNCHANGED <<mgrVars, concVars, appVars, histVars, lockVars>>
    \/ RemoteStop /\ UNCHANGED <<mgrVars, concVars, appVars, histVars, lockVars>>

RunnerSpec == RunnerInit /\ [][RunnerNext]_vars

\* The same runners on a system where Process.Kill may fail
RunnerFaultInit ==
    /\ NewManager
    /\ failBudget = 0
    /\ scn = NoScenario
    /\ NewRunners
    /\ NoApp
    /\ removed = {}
    /\ NoHolders
    /\ NoCallers
    /\ runnerCfg \in [start_cmd : {"", "echo started"}, health_url : {"", "http://localhost/health"}]
    /\ killBudget = MaxKillFailures

RunnerFaultSpec == RunnerFaultInit /\ [][RunnerNext]_vars

-----------------------------------------------------------------------------
(* The Manager called by two threads.  A call that holds the write lock from
   its first statement to its return (AddServer, RemoveServer, StartServer,
   StopServer, SetAutoApprove, SetTimeout) is one step; RegisterLocalTool is
   two, the Lock and the rest; LoadToolFromConfig, LoadServerFromConfig and
   ExecuteTool take and release the lock for single statements and are one
   step for each statement that reads or writes what the threads share. *)

\* the inputs of the threads
ConcServerInputs == {s \in ServerInputs : s.Type = ServerTypeLocal /\ s.Status = ServerStatusRunning}

ConcToolFiles == {c \in ToolConfigFiles : LoadToolConfig(c) = Nil}

ConcServerFiles == {c \in ServerConfigFiles : c.Type = ServerTypeLocal /\ LoadServerConfig(c) = Nil}

\* the tool the threads register and execute: the one the server file declares
ConcTool == "t2"

ConcParams == [n |-> "[]interface{}"]

ConcEnvs == {e \in HandlerEnvs : e.ctx = "live" /\ e.err = Nil}

\* thread t is at pc, with the locals changed as given
At(t, pc) == th[t].pc = pc

Goto(t, rec) == th' = [th EXCEPT ![t] = rec]

\* thread t returns from its call with the error the step wrote to last
Return(t) ==
    /\ Goto(t, Idle)
    /\ allOK' = (allOK /\ last'.err = Nil)

\* a call made in one step under the write lock
Atomically(t) ==
    /\ At(t, "idle")
    /\ mu = ""
    /\ Return(t)
    /\ UNCHANGED <<mu, scn, runnerVars, appVars, histVars, lockVars>>

\* RegisterLocalTool, line 258: m.mu.Lock()
RegisterLock(t) ==
    /\ At(t, "idle")
    /\ mu = ""
    /\ mu' = t
    /\ Goto(t, [Idle EXCEPT !.pc = "register", !.op = "RegisterLocalTool"])
    /\ UNCHANGED <<mgrVars, runnerVars, appVars, histVars, lockVars, allOK>>

\* RegisterLocalTool, lines 262-290 and the deferred Unlock
RegisterBody(t, serverID, tool, handler) ==
    /\ At(t, "register")
    /\ RegisterLocalTool(serverID, tool, handler)
    /\ mu' = ""
    /\ Return(t)
    /\ UNCHANGED <<scn, runnerVars, appVars, histVars, lockVars>>

\* LoadToolFromConfig, lines 354-375
LoadToolInsert(t, config) ==
    /\ At(t, "idle")
    /\ mu = ""
    /\ UNCHANGED <<servers, executors, autoApprove, timeout, persisted, failBudget, scn, mu, runnerVars, appVars, histVars, lockVars>>
    /\ IF LoadToolConfig(config) # Nil
       THEN /\ last' = Call("LoadToolFromConfig", config.ID,
                            Errorf("failed to load tool config: ", LoadToolConfig(config)))
            /\ Return(t)
            /\ UNCHANGED tools
       ELSE /\ tools' = MapPut(tools, config.ID, ToolOfConfig(config, ""))
            /\ Goto(t, [Idle EXCEPT !.pc = "marshal", !.op = "LoadToolFromConfig", !.id = config.ID])
            /\ UNCHANGED <<last, allOK>>

\* LoadServerFromConfig, lines 382-404
LoadServerInsert(t, config) ==
    /\ At(t, "idle")
    /\ mu = ""
    /\ UNCHANGED <<tools, executors, autoApprove, timeout, persisted, failBudget, scn, mu, runnerVars, appVars, histVars, lockVars>>
    /\ IF LoadServerConfig(config) # Nil
       THEN /\ last' = Call("LoadServerFromConfig", config.ID,
                            Errorf("failed to load server config: ", LoadServerConfig(config)))
            /\ Return(t)
            /\ UNCHANGED servers
       ELSE /\ servers' = MapPut(servers, config.ID, ServerOfConfig(config))
            /\ Goto(t, [Idle EXCEPT !.pc = IF config.Tools = <<>> THEN "marshal" ELSE "tools",
                                    !.op = "LoadServerFromConfig", !.id = config.ID,
                                    !.rest = config.Tools])
            /\ UNCHANGED <<last, allOK>>

\* LoadServerFromConfig, lines 407-424: one turn of the loop
LoadServerTool(t) ==
    /\ At(t, "tools")
    /\ mu = ""
    /\ tools' = MapPut(tools, Head(th[t].rest).ID, ToolOfConfig(Head(th[t].rest), th[t].id))
    /\ Goto(t, [th[t] EXCEPT !.pc = IF Tail(th[t].rest) = <<>> THEN "marshal" ELSE "tools",
                             !.rest = Tail(th[t].rest)])
    /\ UNCHANGED <<servers, executors, autoApprove, timeout, persisted, failBudget, last, scn, mu,
                   runnerVars, appVars, histVars, lockVars, allOK>>

\* saveConfig called without the lock (lines 377 and 426): lines 295-307
SaveMarshal(t) ==
    /\ At(t, "marshal")
    /\ Goto(t, [th[t] EXCEPT !.pc = "write", !.data = MarshalConfig(servers, tools, autoApprove, timeout)])
    /\ UNCHANGED <<mgrVars, runnerVars, appVars, histVars, lockVars, mu, allOK>>

\* saveConfig called without the lock: line 317, and the return of the call
SaveWrite(t) ==
    /\ At(t, "write")
    /\ persisted' = th[t].data
    /\ last' = Call(th[t].op, th[t].id, Nil)
    /\ Return(t)
    /\ UNCHANGED <<servers, tools, executors, autoApprove, timeout, failBudget, scn, mu, runnerVars, appVars, histVars, lockVars>>

\* ExecuteTool returns: it changes nothing of the registry
ReturnFromExecute(t, o) ==
    /\ last' = ExecuteCall(th[t].id, ConcParams, o)
    /\ Goto(t, Idle)

\* ExecuteTool, lines 156-162
ExecuteGetTool(t, toolID) ==
    /\ At(t, "idle")
    /\ mu = ""
    /\ UNCHANGED <<servers, tools, executors, autoApprove, timeout, persisted, failBudget, scn, mu,
                   runnerVars, appVars, histVars, lockVars, allOK>>
    /\ IF toolID \notin DOMAIN tools
       THEN /\ last' = ExecuteCall(toolID, ConcParams, Refused(ErrorsNew("tool not found")))
            /\ Goto(t, Idle)
       ELSE /\ Goto(t, [Idle EXCEPT !.pc = "server", !.op = "ExecuteTool", !.id = toolID,
                                    !.tool = tools[toolID]])
            /\ UNCHANGED last

\* ExecuteTool, lines 165-172
ExecuteGetServer(t) ==
    /\ At(t, "server")
    /\ mu = ""
    /\ UNCHANGED <<servers, tools, executors, autoApprove, timeout, persisted, failBudget, scn, mu,
                   runnerVars, appVars, histVars, lockVars, allOK>>
    /\ IF th[t].tool.ServerID \notin DOMAIN servers
       THEN ReturnFromExecute(t, Refused(Errorf("server error: ", ErrorsNew("server not found"))))
       ELSE IF ~ServerIsRunning(servers[th[t].tool.ServerID])
       THEN ReturnFromExecute(t, Refused(ErrorsNew("server is not running")))
       ELSE /\ Goto(t, [th[t] EXCEPT !.pc = "lookup", !.server = servers[th[t].tool.ServerID]])
            /\ UNCHANGED last

\* ExecuteTool, lines 175-185: the map of executors is read, no lock held
ExecuteLookup(t) ==
    /\ At(t, "lookup")
    /\ UNCHANGED <<servers, tools, executors, autoApprove, timeout, persisted, failBudget, scn, mu,
                   runnerVars, appVars, histVars, lockVars, allOK>>
    /\ IF ExecutorFor(th[t].tool.ServerID, th[t].server) = {}
       THEN ReturnFromExecute(t, Refused(ErrorsNew("unsupported server type: " \o th[t].server.Type)))
       ELSE \E e \in ExecutorFor(th[t].tool.ServerID, th[t].server) :
            /\ Goto(t, [th[t] EXCEPT !.exec = e,
                                     !.pc = IF th[t].tool.ServerID \in DOMAIN executors
                                            THEN "run" ELSE "store"])
            /\ UNCHANGED last

\* ExecuteTool, line 186: the map of executors is written, no lock held
ExecuteStore(t) ==
    /\ At(t, "store")
    /\ executors' = MapPut(executors, th[t].tool.ServerID, th[t].exec)
    /\ Goto(t, [th[t] EXCEPT !.pc = "run"])
    /\ UNCHANGED <<servers, tools, autoApprove, timeout, persisted, failBudget, last, scn, mu,
                   runnerVars, appVars, histVars, lockVars, allOK>>

\* ExecuteTool, lines 190-203
ExecuteRun(t) ==
    /\ At(t, "run")
    /\ \E o \in Execute(th[t].exec, th[t].tool, ConcParams, ConcEnvs) : ReturnFromExecute(t, o)
    /\ UNCHANGED <<servers, tools, executors, autoApprove, timeout, persisted, failBudget, scn, mu,
                   runnerVars, appVars, histVars, lockVars, allOK>>

ConcInit ==
    /\ NewManager
    /\ failBudget = 0
    /\ scn = NoScenario
    /\ NewRunners
    /\ NoApp
    /\ removed = {}
    /\ NoHolders
    /\ NoCallers
    /\ runnerCfg = [start_cmd |-> "", health_url |-> ""]
    /\ killBudget = 0

ConcNext ==
    \/ \E t \in Threads, server \in ConcServerInputs : AddServer(server) /\ Atomically(t)
    \/ \E t \in Threads, serverID \in ServerIDs : RemoveServer(serverID) /\ Atomically(t)
    \/ \E t \in Threads, serverID \in ServerIDs : StartServer(serverID) /\ Atomically(t)
    \/ \E t \in Threads, serverID \in ServerIDs : StopServer(serverID) /\ Atomically(t)
    \/ \E t \in Threads : SetAutoApprove(TRUE) /\ Atomically(t)
    \/ \E t \in Threads : RegisterLock(t)
    \/ \E t \in Threads, serverID \in ServerIDs : RegisterBody(t, serverID, ToolInput(ConcTool), "h2")
    \/ \E t \in Threads, config \in ConcToolFiles : LoadToolInsert(t, config)
    \/ \E t \in Threads, config \in ConcServerFiles : LoadServerInsert(t, config)
    \/ \E t \in Threads : LoadServerTool(t)
    \/ \E t \in Threads : SaveMarshal(t)
    \/ \E t \in Threads : SaveWrite(t)
    \/ \E t \in Threads : ExecuteGetTool(t, ConcTool)
    \/ \E t \in Threads : ExecuteGetServer(t)
    \/ \E t \in Threads : ExecuteLookup(t)
    \/ \E t \in Threads : ExecuteStore(t)
    \/ \E t \in Threads : ExecuteRun(t)

ConcSpec == ConcInit /\ [][ConcNext]_vars

-----------------------------------------------------------------------------
(* The locks.  The Manager and the two runners share no state and no lock
   (manager.go calls no runner, a runner has its own mu), so a program is
   taken to call one of the three: the Manager from two threads, with a handler
   that calls the Manager back, or the Local runner beside its health-check
   loops, or the Remote runner.  Every call of a runner takes the runner's mu
   in its first statement and releases it as it returns. *)

\* a handler run by ExecuteTool (manager.go:190, server.go:364) calls
\* SetAutoApprove, which takes the Manager's lock, once
HandlerCallsManager(t) ==
    /\ At(t, "run")
    /\ th[t].exec.kind = "local"
    /\ th[t].tool.ID \in DOMAIN th[t].exec.handlers
    /\ ~th[t].nested
    /\ mu = ""
    /\ SetAutoApprove(TRUE)
    /\ th' = [th EXCEPT ![t].nested = TRUE]
    /\ allOK' = (allOK /\ last'.err = Nil)
    /\ UNCHANGED <<mu, scn, runnerVars, appVars, histVars, lockVars>>

\* the steps of thread t inside a Manager call
ManagerStep(t) ==
    \/ \E serverID \in ServerIDs : RegisterBody(t, serverID, ToolInput(ConcTool), "h2")
    \/ LoadServerTool(t)
    \/ SaveMarshal(t)
    \/ SaveWrite(t)
    \/ ExecuteGetServer(t)
    \/ ExecuteLookup(t)
    \/ ExecuteStore(t)
    \/ HandlerCallsManager(t)
    \/ ExecuteRun(t)

\* the calls the threads begin
ManagerCall(t) ==
    \/ \E server \in ConcServerInputs : AddServer(server) /\ Atomically(t)
    \/ RegisterLock(t)
    \/ \E config \in ConcServerFiles : LoadServerInsert(t, config)
    \/ ExecuteGetTool(t, ConcTool)

RunnerUnlock_Forgotten(m, runner) == m

\* the deferred r.mu.Unlock() of a runner's call, and line 146 of the loop
RunnerUnlock(m, runner) == [m EXCEPT ![runner] = ""]

\* r.mu.Lock() or RLock() as the first statement of a call of the runner
RunnerLock(runner, op) ==
    /\ ~crashed
    /\ runner \in DOMAIN rmu
    /\ rmu[runner] = ""
    /\ rmu' = [rmu EXCEPT ![runner] = op]
    /\ UNCHANGED <<mgrVars, runnerVars, concVars, appVars, histVars, component>>

\* healthCheck, line 144: r.mu.Lock() after a failed check
LoopLock ==
    /\ ~crashed
    /\ loops.failed > 0
    /\ rmu.local = ""
    /\ rmu' = [rmu EXCEPT !.local = "loop"]
    /\ UNCHANGED <<mgrVars, runnerVars, concVars, appVars, histVars, component>>

\* LocalServerRunner.Status and RemoteServerRunner.Status
LocalStatus ==
    /\ ~crashed
    /\ llast' = RunnerCall("Status", lstatus, Nil)
    /\ UNCHANGED <<runnerCfg, lstatus, stopChan, loops, procs, crashed, killBudget, rstatus, rlast, rprobe>>

RemoteStatus ==
    /\ ~crashed
    /\ rlast' = RunnerCall("Status", rstatus, Nil)
    /\ UNCHANGED <<runnerCfg, lstatus, stopChan, loops, procs, crashed, killBudget, llast, rstatus, rprobe>>

\* the rest of a call of the runner, by the holder of its mu
LocalHolderStep ==
    \/ \E spawned \in BOOLEAN : rmu.local = "Start" /\ LocalStart(spawned)
    \/ \E killed \in KillOutcomes : rmu.local = "Stop" /\ LocalStop(killed)
    \/ rmu.local = "Status" /\ LocalStatus
    \/ rmu.local = "loop" /\ LoopSetError

RemoteHolderStep ==
    \/ \E answer \in ProbeAnswers : rmu.remote = "Start" /\ RemoteStart(answer)
    \/ rmu.remote = "Stop" /\ RemoteStop
    \/ rmu.remote = "Status" /\ RemoteStatus

LocalRunnerStep ==
    /\ LocalHolderStep
    /\ rmu' = RunnerUnlock(rmu, "local")
    /\ UNCHANGED <<mgrVars, concVars, appVars, histVars, component>>

RemoteRunnerStep ==
    /\ RemoteHolderStep
    /\ rmu' = RunnerUnlock(rmu, "remote")
    /\ UNCHANGED <<mgrVars, concVars, appVars, histVars, component>>

LockInit ==
    /\ NewManager
    /\ failBudget = 0
    /\ scn = NoScenario
    /\ NewRunners
    /\ NoApp
    /\ removed = {}
    /\ rmu = [local |-> "", remote |-> ""]
    /\ component \in {"Manager", "local", "remote"}
    /\ NoCallers
    /\ runnerCfg = [start_cmd |-> "echo started", health_url |-> "http://localhost/health"]
    /\ killBudget = 0

LockNext ==
    \/ component = "Manager" /\ \E t \in Threads : ManagerCall(t)
    \/ component = "Manager" /\ \E t \in Threads : ManagerStep(t)
    \/ \E op \in {"Start", "Stop", "Status"} : RunnerLock(component, op)
    \/ component = "local" /\ LoopLock
    \/ component = "local" /\ LocalRunnerStep
    \/ component = "remote" /\ RemoteRunnerStep
    \/ component = "local" /\ LoopTick /\ UNCHANGED <<mgrVars, concVars, appVars, histVars, lockVars>>
    \/ component = "local" /\ \E healthy \in HealthOutcomes :
          LoopCheck(healthy) /\ UNCHANGED <<mgrVars, concVars, appVars, histVars, lockVars>>
    \/ component = "local" /\ LoopExit /\ UNCHANGED <<mgrVars, concVars, appVars, histVars, lockVars>>

\* A thread inside a Manager call goes on, and gets the lock it waits for
\* (sync.RWMutex hands the lock to a waiter); the holder of each runner's mu
\* goes on to its return.
LockSpec ==
    /\ LockInit
    /\ [][LockNext]_vars
    /\ \A t \in Threads : SF_vars(component = "Manager" /\ ManagerStep(t))
    /\ WF_vars(component = "local" /\ LocalRunnerStep)
    /\ WF_vars(component = "remote" /\ RemoteRunnerStep)

-----------------------------------------------------------------------------
(* What the claims speak of *)

\* the last call was ExecuteTool of a registered tool whose server is registered
ExecutedOnServer ==
    /\ last.op = "ExecuteTool"
    /\ last.id \in DOMAIN tools
    /\ tools[last.id].ServerID \in DOMAIN servers

\* the server owning the tool of the last ExecuteTool
OwningServer == servers[tools[last.id].ServerID]

\* the call returned a call error and no Result, and reached no backend
RefusedCall == last.err # Nil /\ last.res = NilResult /\ last.invoked = NotInvoked

\* a value of dynamic type value has the runtime shape of the type tag
HasShape(tag, value) ==
    \/ tag = "string" /\ value = "string"
    \/ tag = "number" /\ value \in {"int", "int8", "int16", "int32", "int64", "float32", "float64"}
    \/ tag = "boolean" /\ value = "bool"
    \/ tag = "array" /\ value = "[]interface{}"
    \/ tag = "object" /\ value = "map[string]interface{}"

\* params omits a required parameter, holds an undeclared key, or holds a value
\* that has not the shape of its declared type
ViolatesDeclaration(Parameters, params) ==
    \/ \E i \in 1..Len(Parameters) : Parameters[i].Required /\ Parameters[i].Name \notin DOMAIN params
    \/ \E k \in DOMAIN params : \A i \in 1..Len(Parameters) : Parameters[i].Name # k
    \/ \E k \in DOMAIN params : \E i \in 1..Len(Parameters) :
          Parameters[i].Name = k /\ ~HasShape(Parameters[i].Type, params[k])

-----------------------------------------------------------------------------
(* Claims *)

\* C1: ExecuteTool on a registered tool whose owning server is registered with a
\* Status other than Running returns the call error "server is not running" with
\* no Result, and reaches no executor backend (no handler, no HTTP request).
C1_NotRunningRefused ==
    (ExecutedOnServer /\ OwningServer.Status # ServerStatusRunning)
        => /\ last.err = ErrorsNew("server is not running")
           /\ last.res = NilResult
           /\ last.invoked = NotInvoked

C1_Witness ==
    /\ ExecutedOnServer
    /\ OwningServer.Status = ""
    /\ tools[last.id].ServerID \in DOMAIN executors
    /\ last.err = ErrorsNew("server is not running")

\* C2: ExecuteTool on a Running server with a parameter map that omits a required
\* parameter, holds an undeclared key or holds a value of the wrong shape returns
\* a call error and no Result, and neither a handler nor an HTTP request is reached.
C2_InvalidParamsRefused ==
    (/\ ExecutedOnServer
     /\ OwningServer.Status = ServerStatusRunning
     /\ ViolatesDeclaration(tools[last.id].Parameters, last.params))
        => RefusedCall

C2_Witness ==
    /\ ExecutedOnServer
    /\ OwningServer.Status = ServerStatusRunning
    /\ last.params = [x |-> "string", u |-> "string"]
    /\ last.id = "t1"
    /\ tools[last.id].ServerID \in DOMAIN executors
    /\ "t1" \in DOMAIN executors[tools[last.id].ServerID].handlers
    /\ last.err = Errorf("parameter validation failed: ", ErrorsNew("unknown parameter: u"))

\* C3: a RemoveServer(id) that returns nil was called for a registered id and
\* leaves no server under id and no tool whose ServerID is id, so every tool the
\* server owned is gone from the catalog (and the tools of no other owner stay);
\* a RemoveServer(id) of an absent id returns "server not found" and changes
\* nothing of the registry or the persisted file.
C3_RemoveServerCascades ==
    [][last'.op = "RemoveServer" =>
          /\ last'.err = Nil =>
                /\ last'.id \in DOMAIN servers
                /\ last'.id \notin DOMAIN servers'
                /\ \A t \in DOMAIN tools' : tools'[t].ServerID # last'.id
                /\ \A t \in DOMAIN tools : tools[t].ServerID = last'.id => t \notin DOMAIN tools'
                /\ \A t \in DOMAIN tools : tools[t].ServerID # last'.id =>
                       (t \in DOMAIN tools' /\ tools'[t] = tools[t])
          /\ last'.id \notin DOMAIN servers =>
                /\ last'.err = ErrorsNew("server not found")
                /\ UNCHANGED <<servers, tools, executors, autoApprove, timeout, persisted>>]_vars

\* a RemoveServer succeeded on a server that had a handler registered for t2;
\* the tool t2 is gone and the tool t1, owned by no server, is still in the catalog
C3_Witness ==
    /\ last.op = "RemoveServer"
    /\ last.err = Nil
    /\ last.id \in DOMAIN executors
    /\ "t2" \in DOMAIN executors[last.id].handlers
    /\ "t2" \notin DOMAIN tools
    /\ "t1" \in DOMAIN tools
    /\ tools["t1"].ServerID = ""

\* C4: after AddServer of a Local server, StartServer of it and
\* RegisterLocalTool(serverID, T, H), ExecuteTool(T.ID, P) with P valid for T
\* returns a nil call error and a Result with ToolID = T.ID, Status = success,
\* an empty Error and the value H returns for P, whenever H returns no error.
C4_ScenarioSucceeds ==
    (/\ scn.step = 4
     /\ ~ViolatesDeclaration(DeclaredParameters(scn.tool), last.params)
     /\ last.env.err = Nil)
        => /\ last.err = Nil
           /\ last.res = [ToolID |-> scn.tool, Status |-> ToolExecutionStatusSuccess,
                          Result |-> HandlerValue(scn.handler, last.params), Error |-> ""]

C4_Witness ==
    /\ scn.step = 4
    /\ scn.tool = "t1"
    /\ scn.handler = "h2"
    /\ last.params = [x |-> "string", n |-> "float64"]
    /\ last.res.Status = ToolExecutionStatusSuccess
    /\ last.res.Result = HandlerValue("h2", [x |-> "string", n |-> "float64"])

\* C5: when validation passes and the invocation fails (the handler returns an
\* error other than deadline-exceeded, or the HTTP transport fails), ExecuteTool
\* returns a nil call error and a Result with Status = error whose Error carries
\* the failure message.
C5_FailureInsideResult ==
    (/\ last.op = "ExecuteTool"
     /\ last.invoked # NotInvoked
     /\ last.env.err # Nil
     /\ last.invoked.kind = "handler" => last.env.err # DeadlineExceeded)
        => /\ last.err = Nil
           /\ last.res.ToolID = last.id
           /\ last.res.Status = ToolExecutionStatusError
           /\ last.res.Error = (IF last.invoked.kind = "handler" THEN last.env.err.msg
                                ELSE "request failed: " \o last.env.err.msg)

C5_Witness ==
    /\ last.op = "ExecuteTool"
    /\ last.invoked.kind = "http"
    /\ last.invoked.target = "http://svc/t1"
    /\ last.env.err = URLError(ErrorsNew("connection refused"))
    /\ last.res.Status = ToolExecutionStatusError

C5_WitnessLocal ==
    /\ last.op = "ExecuteTool"
    /\ last.invoked.kind = "handler"
    /\ last.env.err = ErrorsNew("boom")
    /\ last.res.Error = "boom"

\* C8: when the caller's context is cancelled or its deadline expires while an
\* execution is in flight and the handler or the HTTP client returns for that
\* reason, the Result has Status = timeout, for the Local and for the HTTP
\* executor; Status = timeout is produced in no other case.
C8_TimeoutIffContextDone ==
    (last.op = "ExecuteTool" /\ last.invoked # NotInvoked /\ last.err = Nil)
        => /\ (last.env.ctx \in {"deadline", "canceled"} /\ last.env.err # Nil)
                => last.res.Status = ToolExecutionStatusTimeout
           /\ last.res.Status = ToolExecutionStatusTimeout
                => last.env.ctx \in {"deadline", "canceled"}

\* C6: whenever no mutating Manager call is in progress and every mutating call
\* that returned so far returned nil, the file holds the in-memory registry
\* (servers, tools, autoApprove, timeout), whatever the interleaving of the callers.
C6_PersistedEqualsMemory ==
    (/\ \A t \in Threads : th[t].op \in {"", "ExecuteTool"}
     /\ mu = ""
     /\ allOK
     /\ persisted # NoFile)
        => persisted = MarshalConfig(servers, tools, autoApprove, timeout)

\* C7: a thread that reads or writes the map of executors holds the Manager's
\* lock, and no two threads are at the map at the same time with one writing it.
C7_ExecutorsUnderLock ==
    /\ \A t \in Threads : th[t].pc \in {"lookup", "store", "register"} => mu = t
    /\ \A t, u \in Threads :
          (t # u /\ th[t].pc \in {"store", "register"}) => th[u].pc \notin {"lookup", "store", "register"}

\* C9: for the Local and the Remote runner, a step that leaves the status Error
\* is a Start call that returned nil and left the status Running; health-check
\* ticks and Stop calls leave Error as it is.
C9_ErrorLeftOnlyByStart ==
    [][/\ (lstatus = ServerStatusError /\ lstatus' # ServerStatusError)
            => (lstatus' = ServerStatusRunning /\ llast' = RunnerCall("Start", ServerStatusError, Nil))
       /\ (rstatus = ServerStatusError /\ rstatus' # ServerStatusError)
            => (rstatus' = ServerStatusRunning /\ rlast' = RunnerCall("Start", ServerStatusError, Nil))]_vars

\* the Local runner, in Error after a failed health check, was stopped and is
\* in Error still, with a health check of it failing again; the Remote runner
\* was stopped in Error too
C9_Witness ==
    /\ lstatus = ServerStatusError
    /\ llast = RunnerCall("Stop", ServerStatusError, Nil)
    /\ loops.failed > 0
    /\ rstatus = ServerStatusError
    /\ rlast = RunnerCall("Stop", ServerStatusError, Nil)

\* C10: for the Local and the Remote runner, a Start from Stopped that returns
\* nil leaves the status Running, a Stop while Running returns nil and leaves the
\* status Stopped, and a Stop while not Running returns nil and changes nothing.
C10_StartStopContract ==
    /\ (llast.op = "Start" /\ llast.pre = ServerStatusStopped /\ llast.err = Nil)
          => lstatus = ServerStatusRunning
    /\ (llast.op = "Stop" /\ llast.pre = ServerStatusRunning)
          => (llast.err = Nil /\ lstatus = ServerStatusStopped)
    /\ (llast.op = "Stop" /\ llast.pre # ServerStatusRunning)
          => (llast.err = Nil /\ lstatus = llast.pre)
    /\ (rlast.op = "Start" /\ rlast.pre = ServerStatusStopped /\ rlast.err = Nil)
          => rstatus = ServerStatusRunning
    /\ (rlast.op = "Stop" /\ rlast.pre = ServerStatusRunning)
          => (rlast.err = Nil /\ rstatus = ServerStatusStopped)
    /\ (rlast.op = "Stop" /\ rlast.pre # ServerStatusRunning)
          => (rlast.err = Nil /\ rstatus = rlast.pre)

\* C11: a Start of the Remote runner from a status other than Running probes
\* Server.URL + "/health", or the health_url of the metadata when there is one;
\* when the probe is answered with 200, Start returns nil and the status is
\* Running; when it is not answered or answered with another code, Start
\* returns an error and the status is Error.
C11_RemoteStartFollowsProbe ==
    (rlast.op = "Start" /\ rlast.pre # ServerStatusRunning)
        => /\ rprobe.url = (IF runnerCfg.health_url = "" THEN "http://remote/health"
                             ELSE runnerCfg.health_url)
           /\ IF rprobe.answer.reached /\ rprobe.answer.code = 200
              THEN rlast.err = Nil /\ rstatus = ServerStatusRunning
              ELSE rlast.err # Nil /\ rstatus = ServerStatusError

\* a Start from Error whose probe of the override URL was answered with 204
C11_Witness ==
    /\ rlast.op = "Start"
    /\ rlast.pre = ServerStatusError
    /\ rprobe = [url |-> "http://localhost/health", answer |-> [reached |-> TRUE, code |-> 204]]
    /\ rstatus = ServerStatusError

\* a Start from Stopped whose probe of Server.URL + "/health" was answered with 200
C11_WitnessRunning ==
    /\ rlast = RunnerCall("Start", ServerStatusStopped, Nil)
    /\ rprobe = [url |-> "http://remote/health", answer |-> [reached |-> TRUE, code |-> 200]]
    /\ rstatus = ServerStatusRunning

C13_UnknownServerRefused ==
    [][(/\ last'.op = "ExecuteTool"
        /\ last'.id \in DOMAIN tools
        /\ tools[last'.id].ServerID \notin DOMAIN servers)
          => /\ last'.err = Errorf("server error: ", ErrorsNew("server not found"))
             /\ last'.res = NilResult
             /\ last'.invoked = NotInvoked
             /\ last'.id \in DOMAIN tools'
             /\ tools'[last'.id] = tools[last'.id]
             /\ DOMAIN tools' = DOMAIN tools]_vars

\* the tool t1 was loaded by LoadToolFromConfig, a Running server with an
\* executor exists, and ExecuteTool of t1 was refused
C13_Witness ==
    /\ last.op = "ExecuteTool"
    /\ last.id = "t1"
    /\ "t1" \in DOMAIN tools
    /\ tools["t1"].ServerID \notin DOMAIN servers
    /\ \E id \in DOMAIN servers : servers[id].Status = ServerStatusRunning /\ id \in DOMAIN executors
    /\ last.err = Errorf("server error: ", ErrorsNew("server not found"))

\* C14: an ExecuteTool call, whatever it returns (a call error, or a Result of
\* Status success, error or timeout), leaves the servers with every Status, the
\* tools, autoApprove, timeout and the persisted file as they were; in
\* particular it starts no server.
C14_ExecuteToolReadsOnly ==
    [][last'.op = "ExecuteTool" =>
          UNCHANGED <<servers, tools, autoApprove, timeout, persisted>>]_vars

\* ExecuteTool was refused on a tool of a Stopped server, which is still Stopped
C14_Witness ==
    /\ ExecutedOnServer
    /\ last.err = ErrorsNew("server is not running")
    /\ OwningServer.Status = ServerStatusStopped

\* ExecuteTool returned a Result of Status error from a handler it invoked
C14_WitnessResult ==
    /\ ExecutedOnServer
    /\ last.err = Nil
    /\ last.res.Status = ToolExecutionStatusError
    /\ last.invoked # NotInvoked

\* C15: a server's Status comes from the lifecycle operations, never from the
\* caller's data: whenever a server is Running after a call and was not
\* registered as Running before it, the call was StartServer of that server; so
\* a server stored by AddServer is not Running, whatever Status was passed.
C15_RunningOnlyByStartServer ==
    [][\A id \in DOMAIN servers' :
          (/\ servers'[id].Status = ServerStatusRunning
           /\ (id \notin DOMAIN servers \/ servers[id].Status # ServerStatusRunning))
             => (last'.op = "StartServer" /\ last'.id = id)]_vars

\* C16: a RegisterLocalTool(serverID, tool, handler) whose serverID is not
\* registered or names a server that is not Local returns an error and changes
\* neither the tools nor the executors; every other RegisterLocalTool leaves
\* the tool stored with ServerID = serverID and the handler registered under
\* the tool's ID in a Local executor cached for serverID.
C16_RegisterLocalToolContract ==
    [][last'.op = "RegisterLocalTool" =>
          IF last'.server \notin DOMAIN servers \/ servers[last'.server].Type # ServerTypeLocal
          THEN /\ last'.err # Nil
               /\ UNCHANGED <<tools, executors>>
          ELSE /\ last'.id \in DOMAIN tools'
               /\ tools'[last'.id].ServerID = last'.server
               /\ last'.server \in DOMAIN executors'
               /\ executors'[last'.server].kind = "local"
               /\ last'.id \in DOMAIN executors'[last'.server].handlers
               /\ executors'[last'.server].handlers[last'.id] = last'.handler]_vars

\* C17: StartServer(id) and StopServer(id) of an id that is not registered
\* return "server not found" and change nothing; of a registered id they leave
\* its Status Running (StartServer) or Stopped (StopServer) whatever it was,
\* and leave the set of servers, every other server, the rest of that server,
\* the tools, autoApprove and timeout as they were.
C17_StartStopServerContract ==
    [][last'.op \in {"StartServer", "StopServer"} =>
          IF last'.id \notin DOMAIN servers
          THEN /\ last'.err = ErrorsNew("server not found")
               /\ UNCHANGED <<servers, tools, executors, autoApprove, timeout, persisted>>
          ELSE /\ DOMAIN servers' = DOMAIN servers
               /\ servers'[last'.id].Status =
                      (IF last'.op = "StartServer" THEN ServerStatusRunning ELSE ServerStatusStopped)
               /\ servers'[last'.id].Type = servers[last'.id].Type
               /\ \A other \in DOMAIN servers \ {last'.id} : servers'[other] = servers[other]
               /\ UNCHANGED <<tools, autoApprove, timeout>>]_vars

\* StopServer of s1 returned nil while a second server is Running, a tool is
\* registered, and autoApprove and timeout have been changed
C17_Witness ==
    /\ last = Call("StopServer", "s1", Nil)
    /\ servers["s1"].Status = ServerStatusStopped
    /\ "s2" \in DOMAIN servers
    /\ servers["s2"].Status = ServerStatusRunning
    /\ "t2" \in DOMAIN tools
    /\ autoApprove
    /\ timeout = OtherTimeout

\* StartServer of an unregistered id was refused while another server exists
C17_WitnessNotFound ==
    /\ last = Call("StartServer", "s2", ErrorsNew("server not found"))
    /\ DOMAIN servers = {"s1", "u1"}

\* C18: every AddServer(s) inserts: the server is stored under s.ID, or under a
\* new non-empty identifier when s.ID is empty; an identifier already
\* registered is replaced and the call returns nil unless persisting fails;
\* after the call the server registered under the identifier is s as passed,
\* every other server is as it was, and the number of servers has grown by one
\* (new identifier) or not at all (replacement).
C18_AddServerAlwaysInserts ==
    [][last'.op = "AddServer" =>
          /\ last'.id # ""
          /\ IF last'.arg.ID = "" THEN last'.id \notin DOMAIN servers ELSE last'.id = last'.arg.ID
          /\ last'.err \in {Nil, WriteError}
          /\ DOMAIN servers' = DOMAIN servers \cup {last'.id}
          /\ servers'[last'.id].Type = last'.arg.Type
          /\ servers'[last'.id].Status = last'.arg.Status
          /\ \A other \in DOMAIN servers \ {last'.id} : servers'[other] = servers[other]
          /\ Cardinality(DOMAIN servers') =
                 Cardinality(DOMAIN servers) + (IF last'.id \in DOMAIN servers THEN 0 ELSE 1)]_vars

\* a second AddServer with an empty ID returned nil: it was stored under a new
\* identifier beside the server stored by the first
C18_Witness ==
    /\ last.op = "AddServer"
    /\ last.err = Nil
    /\ last.arg.ID = ""
    /\ last.id \in UUIDs
    /\ UUIDs \subseteq DOMAIN servers
    /\ "s1" \in DOMAIN servers

\* AddServer replaced s1: the tool registered on s1 before the call is still there
C18_WitnessReplaced ==
    /\ last.op = "AddServer"
    /\ last.err = Nil
    /\ last.id = "s1"
    /\ "t2" \in DOMAIN tools
    /\ tools["t2"].ServerID = "s1"
    /\ servers["s1"].Status = ""
    /\ "s2" \in DOMAIN servers

\* C19: after an AddServer(s) that returned nil, every tool of the list
\* embedded in s is in the catalog with ServerID = the identifier s is stored
\* under.
C19_EmbeddedToolsStored ==
    [][(last'.op = "AddServer" /\ last'.err = Nil) =>
          \A i \in 1..Len(last'.arg.Tools) :
              /\ last'.arg.Tools[i].ID \in DOMAIN tools'
              /\ tools'[last'.arg.Tools[i].ID].ServerID = last'.id]_vars

\* C20: after a LoadServerFromConfig that returned nil, the server of the file
\* is registered with the file's type and Status Stopped, whatever was
\* registered under its ID before, and every tool the file declares is in the
\* catalog with ServerID = the server's ID.
C20_LoadedServerStopped ==
    [][(last'.op = "LoadServerFromConfig" /\ last'.err = Nil) =>
          /\ last'.id = last'.arg.ID
          /\ last'.id \in DOMAIN servers'
          /\ servers'[last'.id].Status = ServerStatusStopped
          /\ servers'[last'.id].Type = last'.arg.Type
          /\ \A i \in 1..Len(last'.arg.Tools) :
                 /\ last'.arg.Tools[i].ID \in DOMAIN tools'
                 /\ tools'[last'.arg.Tools[i].ID].ServerID = last'.id]_vars

\* the Local server file was loaded over a server that had run as a Remote one
\* (its HTTP executor is still cached): the server is Stopped and the tool t2
\* the file declares is the server's
C20_Witness ==
    /\ last.op = "LoadServerFromConfig"
    /\ last.err = Nil
    /\ last.arg.Type = ServerTypeLocal
    /\ "s1" \in DOMAIN executors
    /\ executors["s1"].kind = "http"
    /\ servers["s1"] = [Type |-> ServerTypeLocal, Status |-> ServerStatusStopped]
    /\ "t2" \in DOMAIN tools
    /\ tools["t2"].ServerID = "s1"

\* C21: whenever an ExecuteTool has sent the HTTP request of a tool of a Remote
\* server, the HTTP executor it used (the one cached for the server) has the
\* Manager's timeout of that moment as its timeout, also when the executor was
\* created before the last SetTimeout.
C21_RemoteUsesGlobalTimeout ==
    (/\ ExecutedOnServer
     /\ last.invoked.kind = "http"
     /\ tools[last.id].ServerID \in DOMAIN executors)
        => executors[tools[last.id].ServerID].timeout = timeout

\* C22: when the remote end has answered the request of an ExecuteTool, the
\* Result has Status success exactly when the response status is 2xx and the
\* body decodes as JSON, the payload then being the decoded body; every other
\* answer (a status that is not 2xx, or a body that is not JSON) gives a Result
\* of Status error.
C22_SuccessIff2xxDecodable ==
    (/\ ExecutedOnServer
     /\ last.invoked.kind = "http"
     /\ last.env.err = Nil)
        => IF last.env.code \in 200..299 /\ last.env.body # "garbage"
           THEN /\ last.err = Nil
                /\ last.res.Status = ToolExecutionStatusSuccess
                /\ last.res.Result = BodyValue(last.env.body)
           ELSE /\ last.err = Nil
                /\ last.res.Status = ToolExecutionStatusError

\* C23: a write of the registry file that fails during AddServer, RemoveServer,
\* StartServer, StopServer, SetAutoApprove, SetTimeout or RegisterLocalTool makes
\* the call return the write error, while the mutation of the call is applied in
\* memory; the call makes that one attempt only (no second write), and a call
\* that returns the write error has made a failed attempt.
C23_WriteFailureSurfaces ==
    [][/\ failBudget' # failBudget =>
            /\ failBudget' = failBudget - 1
            /\ last'.err = WriteError
            /\ CASE last'.op = "AddServer" ->
                       /\ last'.id \in DOMAIN servers'
                       /\ servers'[last'.id] = StoredServer(last'.arg)
                  [] last'.op = "RemoveServer" ->
                       /\ last'.id \in DOMAIN servers
                       /\ last'.id \notin DOMAIN servers'
                  [] last'.op = "StartServer" -> servers'[last'.id].Status = ServerStatusRunning
                  [] last'.op = "StopServer" -> servers'[last'.id].Status = ServerStatusStopped
                  [] last'.op = "SetAutoApprove" -> autoApprove' = last'.arg
                  [] last'.op = "SetTimeout" -> timeout' = last'.arg
                  [] last'.op = "RegisterLocalTool" ->
                       /\ tools'[last'.id].ServerID = last'.server
                       /\ executors'[last'.server].handlers[last'.id] = last'.handler
                  [] OTHER -> FALSE
       /\ last'.err = WriteError => failBudget' = failBudget - 1]_vars

\* an AddServer whose write failed returned the error: the server is in the
\* registry and not in the file, which a call before had written
C23_Witness ==
    /\ last.op = "AddServer"
    /\ last.err = WriteError
    /\ "s1" \in DOMAIN servers
    /\ persisted # NoFile
    /\ "s1" \notin DOMAIN persisted.servers
    /\ autoApprove

\* the tool config has one of the defects the rules name
C24_ToolDefect(c) ==
    \/ c.ID = "" \/ c.Name = "" \/ c.Version = ""
    \/ \E i \in 1..Len(c.Parameters) : c.Parameters[i].Name = "" \/ c.Parameters[i].Type = ""
    \/ c.Timeout < 0 \/ c.RetryCount < 0 \/ c.RetryDelay < 0
    \/ c.Concurrency < 0 \/ c.RateLimit < 0 \/ c.LogMaxSize < 0

\* the server config has one of the defects the rules name, or a tool nested in it has
C24_ServerDefect(c) ==
    \/ c.ID = "" \/ c.Name = "" \/ c.Version = ""
    \/ c.SSLEnabled /\ (c.SSLCertFile = "" \/ c.SSLKeyFile = "")
    \/ c.Port < 0 \/ c.Port > 65535
    \/ \E i \in 1..Len(c.Tools) : C24_ToolDefect(c.Tools[i])

\* C24: a LoadToolFromConfig or LoadServerFromConfig of a file with a missing ID,
\* Name or Version, a parameter without name or type, a negative timeout, retry
\* count, retry delay, concurrency, rate limit or log size, SSL enabled without
\* certificate or key path, or a port outside 0..65535 (the tool rules applying
\* to every tool nested in a server file) returns an error and leaves the
\* servers, the tools, the executors and the registry file as they were.
C24_DefectiveFileRejected ==
    [][(\/ last'.op = "LoadToolFromConfig" /\ C24_ToolDefect(last'.arg)
        \/ last'.op = "LoadServerFromConfig" /\ C24_ServerDefect(last'.arg))
          => /\ last'.err # Nil
             /\ last'.err # WriteError
             /\ UNCHANGED <<servers, tools, executors, persisted>>]_vars

\* a server file whose second tool has a negative rate limit was rejected after
\* a well-formed tool file had been loaded: neither the server nor its first,
\* well-formed tool is registered
C24_Witness ==
    /\ last.op = "LoadServerFromConfig"
    /\ last.err # Nil
    /\ Len(last.arg.Tools) = 2
    /\ last.arg.Tools[2].RateLimit < 0
    /\ servers = EmptyMap
    /\ DOMAIN tools = {"t1"}

\* a server file with SSL enabled and a certificate but no key was rejected
C24_WitnessSSL ==
    /\ last.op = "LoadServerFromConfig"
    /\ last.err # Nil
    /\ last.arg.SSLEnabled
    /\ last.arg.SSLCertFile # ""
    /\ last.arg.SSLKeyFile = ""
    /\ servers = EmptyMap

\* C25: a SetAutoApprove call changes the flag to the value given and nothing
\* else of the Manager; and in the two states before and after it, which differ
\* in the flag only, every ExecuteTool(id, params) call has the same outcomes
\* (the same call error, or the same Result status, payload and error string,
\* reaching the same backend).
C25_AutoApproveNotEnforced ==
    [][last'.op = "SetAutoApprove" =>
          /\ autoApprove' = last'.arg
          /\ UNCHANGED <<servers, tools, executors, timeout>>
          /\ \A toolID \in ToolIDs, params \in ParamMaps :
                 ExecuteToolOutcomes(toolID, params, Envs)' = ExecuteToolOutcomes(toolID, params, Envs)]_vars

\* SetAutoApprove(FALSE) has turned the flag off on a Manager whose Running
\* Local server has a handler registered for a tool
C25_Witness ==
    /\ last.op = "SetAutoApprove"
    /\ last.arg = FALSE
    /\ ~autoApprove
    /\ persisted # NoFile
    /\ \E id \in DOMAIN tools :
          /\ tools[id].ServerID \in DOMAIN servers
          /\ servers[tools[id].ServerID].Status = ServerStatusRunning
          /\ tools[id].ServerID \in DOMAIN executors
          /\ id \in DOMAIN executors[tools[id].ServerID].handlers

\* with the flag off, ExecuteTool has run a handler and returned its success
C25_WitnessExecuted ==
    /\ ExecutedOnServer
    /\ ~autoApprove
    /\ last.invoked.kind = "handler"
    /\ last.res.Status = ToolExecutionStatusSuccess

\* C26: a LoadConfig that read the file a SaveConfig(path, cfg) had written, with
\* VIMCOPLIT_PORT unset, returns nil and a configuration whose members equal
\* those cfg had when it was saved, whatever the configuration held before.
C26_AppConfigRoundTrip ==
    (/\ alast.op = "LoadConfig"
     /\ alast.arg \notin {NoFile, GarbageFile}
     /\ envPort = "")
        => /\ alast.err = Nil
           /\ alast.ret # 0
           /\ alast.arg = JSONOfAppConfig(savedCfg)
           /\ heap[alast.ret] = savedCfg

\* the file saved from a caller's own Config, with port 9090 and model doubao,
\* has been loaded into the package's configuration
C26_Witness ==
    /\ alast.op = "LoadConfig"
    /\ alast.err = Nil
    /\ envPort = ""
    /\ savedCfg = [DefaultConfig EXCEPT !.Port = 9090, !.ModelType = ModelTypeDoubao]
    /\ alast.arg = JSONOfAppConfig(savedCfg)
    /\ heap[globalConfig] = savedCfg
    /\ Len(heap) = 2

\* C27: every address GetConfig has returned is the one the package holds: all
\* GetConfig calls return the same instance, so a modification made through a
\* returned value is seen through every later GetConfig.
C27_GetConfigSameInstance == \A a \in got : a = globalConfig

\* C28: whenever ExecuteTool has handed a call to an executor (the tool and its
\* server are registered, the server is Running and an executor is cached for
\* it), the executor is the variant of the server's Type: the handler-dispatch
\* executor for a Local server, the HTTP executor for a Remote one.
C28_ExecutorMatchesType ==
    (/\ ExecutedOnServer
     /\ OwningServer.Status = ServerStatusRunning
     /\ tools[last.id].ServerID \in DOMAIN executors)
        => executors[tools[last.id].ServerID].kind =
              (IF OwningServer.Type = ServerTypeLocal THEN "local"
               ELSE IF OwningServer.Type = ServerTypeRemote THEN "http"
               ELSE "none")

\* C29: with two threads calling the Manager: while the call that returned last
\* is a RegisterLocalTool(s, T, H) that returned nil and T still belongs to the
\* Running server s, the executor cached for s holds H for T, and an ExecuteTool
\* of T that has taken the cached executor and is about to run it finds H in it
\* (it cannot fail with "no handler registered for tool"): the executor an
\* ExecuteTool creates lazily never replaces the one that holds H.
C29_RegisteredHandlerDispatched ==
    (/\ last.op = "RegisterLocalTool"
     /\ last.err = Nil
     /\ last.id \in DOMAIN tools
     /\ tools[last.id].ServerID = last.server
     /\ last.server \in DOMAIN servers
     /\ servers[last.server].Status = ServerStatusRunning)
        => /\ last.server \in DOMAIN executors
           /\ last.id \in DOMAIN executors[last.server].handlers
           /\ executors[last.server].handlers[last.id] = last.handler
           /\ \A t \in Threads :
                 (/\ th[t].pc = "run"
                  /\ th[t].tool.ID = last.id
                  /\ th[t].tool.ServerID = last.server
                  /\ th[t].exec = executors[last.server])
                    => last.id \in DOMAIN th[t].exec.handlers

\* C30: a handler that was registered for a tool of a server when RemoveServer
\* of that server returned nil is not invoked by an ExecuteTool of a tool with
\* that ID on a server with that ID, unless RegisterLocalTool has registered a
\* handler for that server and tool since; creating the server and the tool
\* again (AddServer, LoadServerFromConfig, LoadToolFromConfig) does not make it
\* reachable.
C30_RemovedHandlerUnreachable ==
    (/\ last.op = "ExecuteTool"
     /\ last.invoked.kind = "handler"
     /\ last.id \in DOMAIN tools)
        => <<tools[last.id].ServerID, last.id, last.invoked.target>> \notin removed

\* C31: the Local runner can be started and stopped again and again: no Start
\* or Stop call panics, and a Stop issued while the status is Running leaves the
\* status Stopped.
C31_RepeatedStartStop ==
    /\ ~crashed
    /\ llast.err.type # "panic"
    /\ (llast.op = "Stop" /\ llast.pre = ServerStatusRunning) => lstatus = ServerStatusStopped

\* C32: while the Local runner is Running after a Start that spawned the
\* process, a health-check loop of it is alive (waiting for a tick, probing, or
\* about to write Error), so that a failing probe is followed by Error.
C32_RunningHasLoop ==
    (lstatus = ServerStatusRunning /\ ~crashed) => LiveLoops > 0

\* C33: the Local runner has at most one health-check loop alive and at most
\* one spawned process that was not killed.
C33_OneLoopOneProcess ==
    /\ LiveLoops <= 1
    /\ procs <= 1

\* C34: a step that finds the Local runner Stopped leaves it Stopped unless the
\* step is a Start call: the health-check loop never writes Error over Stopped.
C34_StoppedUntilStart ==
    [][(lstatus = ServerStatusStopped /\ lstatus' # ServerStatusStopped) => llast'.op = "Start"]_vars

C35_WitnessUnknownTag ==
    /\ last.op = "ValidateParameters"
    /\ last.arg = <<Param("x", "integer", FALSE)>>
    /\ last.params = [x |-> "int"]
    /\ last.err # Nil

\* C36: when the remote end answers with a status of 400 or above and a body
\* that is JSON, of whatever kind, ExecuteTool returns without error a result of
\* Status error, whose Error is the error field of the body when the body is an
\* object that has one and the "server returned status" message otherwise.
C36_ErrorStatusAnyJSONBody ==
    (/\ last.op = "ExecuteTool"
     /\ last.invoked.kind = "http"
     /\ last.env.err = Nil
     /\ last.env.code >= 400
     /\ last.env.body # "garbage")
        => /\ last.err = Nil
           /\ last.res.Status = ToolExecutionStatusError
           /\ last.res.Error = (IF last.env.body = "object+error" THEN "error field of the body"
                                ELSE "server returned status")

\* C37: a RegisterLocalTool that returns "server not found", "server is not a
\* local server" or "invalid executor type" leaves the tools and the handlers
\* as they were: the tool it was given is not stored.
C37_FailedRegisterChangesNothing ==
    [][(/\ last'.op = "RegisterLocalTool"
        /\ last'.err \in {ErrorsNew("server not found"), ErrorsNew("server is not a local server"),
                          ErrorsNew("invalid executor type")})
          => UNCHANGED <<tools, executors>>]_vars

\* C38: with two threads calling the Manager: once every call has returned, a
\* tool that a server file declared (a tool with a ServerID) is in the registry
\* only together with its server: LoadServerFromConfig and a RemoveServer of
\* the same ID running beside it leave the server with its tools or neither.
C38_LoadServerAtomic ==
    (\A t \in Threads : th[t].pc = "idle")
        => \A x \in DOMAIN tools : tools[x].ServerID # "" => tools[x].ServerID \in DOMAIN servers

\* the files of a directory in the order of the scan: servers before tools
C39_Scanned(dir) == dir.servers \o dir.tools

\* the file does not load: its config is invalid
C39_Invalid(f) ==
    IF "Tools" \in DOMAIN f.config THEN validateServerConfig(f.config) # Nil
    ELSE validateToolConfig(f.config) # Nil

\* what the file declares is in the registry r
C39_Registered(f, s, t) ==
    IF "Tools" \in DOMAIN f.config
    THEN /\ f.config.ID \in DOMAIN s
         /\ \A i \in 1..Len(f.config.Tools) :
               /\ f.config.Tools[i].ID \in DOMAIN t
               /\ t[f.config.Tools[i].ID].ServerID = f.config.ID
    ELSE f.config.ID \in DOMAIN t

\* the IDs the file declares
C39_ServerIDsOf(f) == IF "Tools" \in DOMAIN f.config THEN {f.config.ID} ELSE {}

C39_ToolIDsOf(f) ==
    IF "Tools" \in DOMAIN f.config THEN {f.config.Tools[i].ID : i \in 1..Len(f.config.Tools)}
    ELSE {f.config.ID}

\* C39: LoadConfigsFromDirectory of a directory that can be listed loads the
\* server files and then the tool files, in order.  It returns nil when every
\* file loaded, and then what each file declares is registered.  Otherwise
\* there is a first file that did not load (its config is invalid, or the
\* registry could not be saved after it): the error names that file, what the
\* files before it declare is registered, and the servers and tools that only
\* later files declare are as they were before the call.
C39_DirectoryScanStopsAtFirstFailure ==
    [][(last'.op = "LoadConfigsFromDirectory" /\ ~last'.arg.bad) =>
          LET files == C39_Scanned(last'.arg) IN
          IF last'.err = Nil
          THEN \A i \in 1..Len(files) : ~C39_Invalid(files[i]) /\ C39_Registered(files[i], servers', tools')
          ELSE \E k \in 1..Len(files) :
                 /\ \A i \in 1..(k - 1) :
                       ~C39_Invalid(files[i]) /\ C39_Registered(files[i], servers', tools')
                 /\ C39_Invalid(files[k]) \/ failBudget' < failBudget
                 /\ \E kind \in {"server", "tool"} :
                       \E inner \in {"failed to load " \o kind \o " config: invalid " \o kind
                                         \o " config: " \o kind \o " name is required",
                                     WriteError.msg} :
                          last'.err.msg = "failed to load " \o kind \o " config " \o files[k].path
                                             \o ": " \o inner
                 /\ \A i \in (k + 1)..Len(files) :
                       /\ \A id \in C39_ServerIDsOf(files[i]) :
                             /\ id \in DOMAIN servers' <=> id \in DOMAIN servers
                             /\ id \in DOMAIN servers => servers'[id] = servers[id]
                       /\ \A id \in C39_ToolIDsOf(files[i]) :
                             /\ id \in DOMAIN tools' <=> id \in DOMAIN tools
                             /\ id \in DOMAIN tools => tools'[id] = tools[id]]_vars

\* a scan stopped at the nameless servers/b.json: s1 of servers/a.json is
\* registered with its tool, and t1 of tools/a.json was not loaded
C39_Witness ==
    /\ last.op = "LoadConfigsFromDirectory"
    /\ Len(last.arg.servers) = 2
    /\ Len(last.arg.tools) = 2
    /\ last.err.msg = "failed to load server config servers/b.json: failed to load server config: invalid server config: server name is required"
    /\ "s1" \in DOMAIN servers
    /\ "t2" \in DOMAIN tools
    /\ "t1" \notin DOMAIN tools

\* a scan whose third save failed: the file it was made for is named
C39_WitnessWriteFailure ==
    /\ last.op = "LoadConfigsFromDirectory"
    /\ last.err.msg = "failed to load tool config tools/a.json: " \o WriteError.msg
    /\ "s2" \in DOMAIN servers
    /\ "t1" \in DOMAIN tools
    /\ "t4" \notin DOMAIN tools

\* C40: no call waits for ever: a thread inside a Manager call returns from it,
\* also when the handler it runs calls the Manager back, and whoever holds the
\* mu of a runner (a Start, Stop or Status call, or the health-check loop)
\* releases it.
C40_NoDeadlock ==
    /\ \A t \in Threads : (th[t].pc # "idle") ~> (th[t].pc = "idle")
    /\ (rmu.local # "") ~> (rmu.local = "")
    /\ (rmu.remote # "") ~> (rmu.remote = "")

\* a handler run by thread A has called the Manager back while thread B, in
\* RegisterLocalTool, holds the Manager's lock
C40_Witness ==
    /\ th["A"].pc = "run"
    /\ th["A"].nested
    /\ mu = "B"
    /\ th["B"].pc = "register"

\* the health-check loop holds the Local runner's mu to write Error over the
\* Stopped a Stop call has left
C40_WitnessRunners ==
    /\ rmu.local = "loop"
    /\ lstatus = ServerStatusStopped

====
